---- MODULE Spec2Model ----
(***************************************************************************)
(* A model of the rbufr BUFR decoder: the bit-stream reader (BitInput),    *)
(* the operator state (State), the stack-driven descriptor interpreter     *)
(* (Decoder::decode and its helpers), the array compiler, and the MPHF     *)
(* catalog lookup (BufrTableMph).                                          *)
(*                                                                         *)
(* u64 values are modelled as tuples of 64 bits, most significant first,   *)
(* because the reader's shifts and masks act on all 64 bits.               *)
(***************************************************************************)
EXTENDS Integers, Sequences, FiniteSets, TLC

VARIABLES
    overflow_checks, \* build profile: TRUE = arithmetic overflow panics (debug),
                     \* FALSE = it wraps (release)
    descriptors,     \* the message's descriptor program (section 3)
    data,            \* BitInput: [bytes, off], off = bit offset into bytes[1]
    state,           \* operator State
    stack,           \* Vec<Frame>, top of stack = last element
    record,          \* BUFRParsed.records
    status,          \* "running" | "ok" | "err" | "panic"
    visited,         \* ghost: paths of the descriptors processed so far
    counts,          \* ghost: <<path, count>> of every replication entered
    compiled,        \* ghost: pre-state of the last compiled array decode
    steps,           \* ghost: iterations of the decode loop so far
    fields,          \* harness: the (value, width) pairs packed into data
    nread,           \* harness: number of packed fields read back so far
    catalog,         \* BufrTableMph: [mphf, entries], or the Cache of four of them
    last,            \* result of the last reader / evaluate / lookup call
    stream,          \* the bytes parse_inner reads
    offsets,         \* parse_inner: the offsets of find_bufr_offsets still to visit
    file_block,      \* BUFRFile.messages
    decoded,         \* ghost: the decode calls that have returned, with their results
    TABLES_BASE_PATH, \* static OnceLock<PathBuf>
    env,             \* the environment variables of the process
    threads,         \* the threads calling the table path functions
    disk             \* the table files that load, as (table type, version)

vars == <<overflow_checks, descriptors, data, state, stack, record, status,
          visited, counts, compiled, steps, fields, nread, catalog, last,
          stream, offsets, file_block, decoded, TABLES_BASE_PATH, env, threads, disk>>

\* Option<T>: None is the empty tuple, Some(v) the one-element tuple
None == <<>>
Some(v) == <<v>>
IsSome(o) == o # <<>>
Unwrap(o) == o[1]

\* the variables of the file parser, of decoder reuse, of the table path and of
\* the table loader, which the reader, the decode loop and the catalogs leave alone
Elsewhere == <<stream, offsets, file_block, decoded, TABLES_BASE_PATH, env, threads, disk>>

IdleElsewhere ==
    /\ stream = <<>>
    /\ offsets = <<>>
    /\ file_block = <<>>
    /\ decoded = <<>>
    /\ TABLES_BASE_PATH = None
    /\ env = <<>>
    /\ threads = <<>>
    /\ disk = {}

(***************************************************************************)
(* u64 arithmetic on 64-bit tuples                                         *)
(***************************************************************************)
Pow2(k) == 2 ^ k

Zero64 == [i \in 1..64 |-> 0]

\* `b as u64` for a byte b
FromByte(b) == [i \in 1..64 |-> IF i <= 56 THEN 0 ELSE (b \div Pow2(64 - i)) % 2]

\* v << k and v >> k for 0 <= k < 64 (bits shifted out are lost)
Shl(v, k) == [i \in 1..64 |-> IF i + k <= 64 THEN v[i + k] ELSE 0]
Shr(v, k) == [i \in 1..64 |-> IF i - k >= 1 THEN v[i - k] ELSE 0]

BitOr(a, b) == [i \in 1..64 |-> IF a[i] = 1 \/ b[i] = 1 THEN 1 ELSE 0]
BitAnd(a, b) == [i \in 1..64 |-> IF a[i] = 1 /\ b[i] = 1 THEN 1 ELSE 0]

\* (1u64 << n) - 1 for n < 64, u64::MAX for n = 64
LowOnes(n) == [i \in 1..64 |-> IF i > 64 - n THEN 1 ELSE 0]

\* the numeric value of a u64 whose set bits all lie in the low 30 bits
RECURSIVE ToNatFrom(_, _)
ToNatFrom(v, i) == IF i > 64 THEN 0 ELSE v[i] * Pow2(64 - i) + ToNatFrom(v, i + 1)
ToNat(v) == ToNatFrom(v, 35)
FitsNat(v) == \A i \in 1..34 : v[i] = 0

(***************************************************************************)
(* BitInput                                                                *)
(***************************************************************************)
BitInput(input) == [bytes |-> input, off |-> 0]

DropBytes(bytes, k) == SubSeq(bytes, k + 1, Len(bytes))

\* Result<u64> of a read together with the cursor it leaves; a panic is the
\* third outcome
ReadOk(v, inp) == [status |-> "ok", value |-> v, input |-> inp, why |-> ""]
ReadErr(inp, why) == [status |-> "err", value |-> Zero64, input |-> inp, why |-> why]
ReadPanic(inp, why) == [status |-> "panic", value |-> Zero64, input |-> inp, why |-> why]

\* value = (value << 8) | byte, over bytes[from .. from + n - 1]
RECURSIVE FoldBytes(_, _, _, _)
FoldBytes(bytes, from, n, value) ==
    IF n = 0 THEN value
    ELSE FoldBytes(bytes, from + 1, n - 1, BitOr(Shl(value, 8), FromByte(bytes[from])))

\* the fast paths for 8, 16, 24 and 32 bits: big-endian byte reads
get_aligned_fast(inp, nbits) ==
    LET k == nbits \div 8 IN
    IF Len(inp.bytes) < k
    THEN ReadErr(inp, "Not enough data")
    ELSE ReadOk(FoldBytes(inp.bytes, 1, k, Zero64),
                [bytes |-> DropBytes(inp.bytes, k), off |-> 0])

\* the generic byte-aligned path
get_aligned_generic(inp, nbits) ==
    LET byte_data == inp.bytes
        nbytes == (nbits + 7) \div 8
        full_bytes == nbits \div 8
        remaining_bits == nbits % 8
        value == FoldBytes(byte_data, 1, full_bytes, Zero64)
    IN  IF Len(byte_data) < nbytes
        THEN ReadErr(inp, "Not enough data")
        ELSE IF remaining_bits > 0
        THEN LET last_byte == FromByte(byte_data[full_bytes + 1])
                 shift == 8 - remaining_bits
                 bits == BitAnd(Shr(last_byte, shift), LowOnes(remaining_bits))
             IN  ReadOk(BitOr(Shl(value, remaining_bits), bits),
                        [bytes |-> DropBytes(byte_data, full_bytes),
                         off |-> remaining_bits])
        ELSE ReadOk(value, [bytes |-> DropBytes(byte_data, full_bytes), off |-> 0])

get_arbitary_bits_aligned(inp, nbits) ==
    IF nbits \in {8, 16, 24, 32}
    THEN get_aligned_fast(inp, nbits)
    ELSE get_aligned_generic(inp, nbits)

\* bits_in_buffer - bit_offset - nbits in usize: the subtraction overflows when
\* bit_offset + nbits > 64 (nine bytes needed). With overflow checks it panics;
\* without, it wraps and the shift amount is then taken modulo 64.
unaligned_shift(bits_in_buffer, bit_offset, nbits) ==
    LET d == bits_in_buffer - bit_offset - nbits IN
    IF d >= 0 THEN d ELSE (d + 64) % 64

get_arbitary_bits_unaligned(inp, nbits) ==
    IF nbits > 64
    THEN ReadErr(inp, "Cannot read more than 64 bits")
    ELSE
    LET bit_offset == inp.off
        total_bits_needed == bit_offset + nbits
        bytes_needed == (total_bits_needed + 7) \div 8
        bytes_to_read == IF bytes_needed < 8 THEN bytes_needed ELSE 8
        buffer8 == FoldBytes(inp.bytes, 1, bytes_to_read, Zero64)
        bits_from_ninth == total_bits_needed - 64
        buffer == IF bytes_needed > 8
                  THEN BitOr(Shl(buffer8, bits_from_ninth),
                             Shr(FromByte(inp.bytes[9]), 8 - bits_from_ninth))
                  ELSE buffer8
        bits_in_buffer == bytes_to_read * 8
        shift == unaligned_shift(bits_in_buffer, bit_offset, nbits)
        value == BitAnd(Shr(buffer, shift), LowOnes(nbits))
        new_bit_position == inp.off + nbits
        bytes_consumed == new_bit_position \div 8
    IN  IF Len(inp.bytes) < bytes_needed
        THEN ReadErr(inp, "Not enough data")
        ELSE IF overflow_checks /\ bits_in_buffer - bit_offset - nbits < 0
        THEN ReadPanic(inp, "attempt to subtract with overflow")
        ELSE ReadOk(value, [bytes |-> DropBytes(inp.bytes, bytes_consumed),
                            off |-> new_bit_position % 8])

get_arbitary_bits(inp, nbits) ==
    IF nbits = 0 THEN ReadOk(Zero64, inp)
    ELSE IF inp.off = 0 THEN get_arbitary_bits_aligned(inp, nbits)
    ELSE get_arbitary_bits_unaligned(inp, nbits)

BitsLeft(inp) == Len(inp.bytes) * 8 - inp.off

(***************************************************************************)
(* Bit round-trip harness: (value, width) pairs packed big-endian, MSB     *)
(* first, into a byte buffer, then read back with get_arbitary_bits.       *)
(***************************************************************************)
MaxFields == 2

FieldWidths == {1, 7, 8, 16, 24, 32, 33, 64}
FieldPatterns == {"ones", "alt", "edge"}
ProbeWidths == {0, 1, 7, 8, 9, 16, 24, 32, 33, 57, 63, 64}

\* a value of `w` significant bits
PatternValue(p, w) ==
    [i \in 1..64 |->
        IF i <= 64 - w THEN 0
        ELSE CASE p = "ones" -> 1
               [] p = "alt"  -> i % 2
               [] OTHER      -> IF i = 65 - w \/ i = 64 THEN 1 ELSE 0]

Field(p, w) == [value |-> PatternValue(p, w), width |-> w]
AllFields == {Field(p, w) : p \in FieldPatterns, w \in FieldWidths}

RECURSIVE SeqsUpTo(_, _)
SeqsUpTo(S, n) ==
    IF n = 0 THEN {<<>>}
    ELSE LET shorter == SeqsUpTo(S, n - 1)
         IN  shorter \cup {Append(q, e) : q \in {r \in shorter : Len(r) = n - 1}, e \in S}

\* the bit stream of the packed fields, MSB of every field first
RECURSIVE PackBits(_)
PackBits(fs) ==
    IF fs = <<>> THEN <<>>
    ELSE SubSeq(Head(fs).value, 65 - Head(fs).width, 64) \o PackBits(Tail(fs))

RECURSIVE BitsToBytes(_)
BitsToBytes(bits) ==
    IF bits = <<>> THEN <<>>
    ELSE IF Len(bits) < 8 THEN BitsToBytes(bits \o [i \in 1..(8 - Len(bits)) |-> 0])
    ELSE <<128 * bits[1] + 64 * bits[2] + 32 * bits[3] + 16 * bits[4]
           + 8 * bits[5] + 4 * bits[6] + 2 * bits[7] + bits[8]>>
         \o BitsToBytes(SubSeq(bits, 9, Len(bits)))

Pack(fs) == BitsToBytes(PackBits(fs))

NoCall(inp) == [op |-> "none", n |-> 0, before |-> inp, res |-> ReadOk(Zero64, inp)]

\* the decoder's variables, unused by the reader harness
IdleDecoder ==
    /\ descriptors = <<>>
    /\ state = <<>>
    /\ stack = <<>>
    /\ record = <<>>
    /\ visited = <<>>
    /\ counts = <<>>
    /\ compiled = <<>>
    /\ steps = 0
    /\ catalog = <<>>

InitBits ==
    /\ overflow_checks \in BOOLEAN
    /\ fields \in SeqsUpTo(AllFields, MaxFields) \ {<<>>}
    /\ data = BitInput(Pack(fields))
    /\ nread = 0
    /\ status = "running"
    /\ last = NoCall(data)
    /\ IdleDecoder
    /\ IdleElsewhere

\* one call of get_arbitary_bits; a panic ends the run
CallGetBits(op, n) ==
    LET res == get_arbitary_bits(data, n) IN
    /\ last' = [op |-> op, n |-> n, before |-> data, res |-> res]
    /\ data' = res.input
    /\ status' = IF res.status = "panic" THEN "panic"
                 ELSE IF op = "probe" THEN "probed" ELSE "running"

\* read the next packed field back with its own width
ReadField ==
    /\ status = "running"
    /\ nread < Len(fields)
    /\ CallGetBits("field", fields[nread + 1].width)
    /\ nread' = nread + 1
    /\ UNCHANGED <<overflow_checks, descriptors, state, stack, record, visited,
                   counts, compiled, steps, fields, catalog>>
    /\ UNCHANGED Elsewhere

\* one read of an arbitrary width at the current cursor
Probe ==
    /\ status = "running"
    /\ \E n \in ProbeWidths : CallGetBits("probe", n)
    /\ UNCHANGED <<overflow_checks, descriptors, state, stack, record, visited,
                   counts, compiled, steps, fields, nread, catalog>>
    /\ UNCHANGED Elsewhere

NextBits == ReadField \/ Probe

SpecBits == InitBits /\ [][NextBits]_vars

\* bits consumed by the last call
Advanced == (Len(last.before.bytes) - Len(last.res.input.bytes)) * 8
            + last.res.input.off - last.before.off

\* C4: every packed field read back in order is returned exactly.
C4_RoundTrip ==
    last.op = "field" =>
        /\ last.res.status = "ok"
        /\ last.res.value = fields[nread].value

\* C9: for n in 0..64, a read fails exactly when fewer than n bits remain, and
\* otherwise succeeds and leaves the cursor exactly n bits further on.
C9_FailsIffShort ==
    (last.op \in {"field", "probe"} /\ last.n \in 0..64) =>
        /\ (last.res.status = "err") <=> (BitsLeft(last.before) < last.n)
        /\ (last.res.status # "err") =>
              /\ last.res.status = "ok"
              /\ Advanced = last.n
              /\ last.res.input.off \in 0..7

(***************************************************************************)
(* take_string                                                             *)
(***************************************************************************)
StrOk(str, inp) == [status |-> "ok", str |-> str, input |-> inp, why |-> ""]
StrErr(inp, why) == [status |-> "err", str |-> <<>>, input |-> inp, why |-> why]

\* String::from_utf8 succeeds: the bytes are well-formed UTF-8
RECURSIVE Utf8Valid(_)
Utf8Valid(bs) ==
    LET b == bs[1]
        Cont(i) == i <= Len(bs) /\ bs[i] \in 128..191
    IN  IF bs = <<>> THEN TRUE
        ELSE IF b < 128 THEN Utf8Valid(Tail(bs))
        ELSE IF b \in 194..223
             THEN Cont(2) /\ Utf8Valid(SubSeq(bs, 3, Len(bs)))
        ELSE IF b \in 224..239
             THEN /\ Cont(2) /\ Cont(3)
                  /\ (b = 224 => bs[2] >= 160)
                  /\ (b = 237 => bs[2] <= 159)
                  /\ Utf8Valid(SubSeq(bs, 4, Len(bs)))
        ELSE IF b \in 240..244
             THEN /\ Cont(2) /\ Cont(3) /\ Cont(4)
                  /\ (b = 240 => bs[2] >= 144)
                  /\ (b = 244 => bs[2] <= 143)
                  /\ Utf8Valid(SubSeq(bs, 5, Len(bs)))
        ELSE FALSE

\* the slow path: nbytes reads of 8 bits, each moving the cursor
RECURSIVE take_string_unaligned(_, _, _)
take_string_unaligned(inp, nbytes, chars) ==
    IF nbytes = 0
    THEN IF Utf8Valid(chars) THEN StrOk(chars, inp)
         ELSE StrErr(inp, "Invalid UTF-8 string")
    ELSE LET r == get_arbitary_bits(inp, 8) IN
         IF r.status # "ok" THEN StrErr(r.input, r.why)
         ELSE take_string_unaligned(r.input, nbytes - 1, Append(chars, ToNat(r.value)))

take_string(inp, nbytes) ==
    IF nbytes = 0 THEN StrOk(<<>>, inp)
    ELSE IF inp.off = 0
    THEN IF Len(inp.bytes) < nbytes THEN StrErr(inp, "Not enough data for string")
         ELSE IF ~Utf8Valid(SubSeq(inp.bytes, 1, nbytes))
         THEN StrErr(inp, "Invalid UTF-8 string")
         ELSE StrOk(SubSeq(inp.bytes, 1, nbytes),
                    [bytes |-> DropBytes(inp.bytes, nbytes), off |-> 0])
    ELSE take_string_unaligned(inp, nbytes, <<>>)

(***************************************************************************)
(* Descriptors, table entries and catalogs                                 *)
(***************************************************************************)
FXY(f, x, y) == [f |-> f, x |-> x, y |-> y]

BTableEntry(fxy, name, unit, scale, reference, width) ==
    [fxy |-> fxy, element_name_en |-> name, bufr_unit |-> unit, bufr_scale |-> scale,
     bufr_reference_value |-> reference, bufr_datawidth_bits |-> width]

DTableEntry(fxy, chain) == [fxy |-> fxy, fxy_chain |-> chain]

\* BufrTableMph::get: the entry in the slot the hash function gives the key. The
\* hash function answers None or an arbitrary slot for a key it was not built from.
BufrTableMph_get(cat, fxy) ==
    LET hash == cat.mphf[fxy] IN
    IF hash = None THEN None
    ELSE IF Unwrap(hash) < Len(cat.entries) THEN Some(cat.entries[Unwrap(hash) + 1])
    ELSE None

\* BUFRTableMPH::lookup
lookup(cat, fxy) == BufrTableMph_get(cat, fxy)

\* a lookup that hands back whatever the slot holds
FilterNothing(found, fxy) == found

\* Option::filter(|e| &e.fxy == fxy)
FilterFxy(found, fxy) ==
    IF IsSome(found) /\ Unwrap(found).fxy = fxy THEN found ELSE None

\* the keys the decoder model can meet
DecoderKeys ==
    {FXY(f, x, y) : f \in 0..3, x \in {0, 1, 2, 6, 31}, y \in {0, 1, 2, 3, 4, 15, 16, 129}}

\* a catalog holding `entries` in hash order; every foreign key hashes to slot 0
CatalogOf(entries) ==
    [mphf |-> [k \in DecoderKeys |->
                 IF \E i \in 1..Len(entries) : entries[i].fxy = k
                 THEN Some((CHOOSE i \in 1..Len(entries) : entries[i].fxy = k) - 1)
                 ELSE Some(0)],
     entries |-> entries]

master_b ==
    CatalogOf(<<
        BTableEntry(FXY(0, 1, 1), "WMO block number", "Numeric", 0, 0, 7),
        BTableEntry(FXY(0, 2, 1), "Type of station", "code table", 0, 0, 2),
        BTableEntry(FXY(0, 31, 1), "Delayed descriptor replication factor",
                    "Numeric", 0, 0, 8),
        BTableEntry(FXY(0, 1, 15), "Station or site name", "CCITT IA5", 0, 0, 16)>>)

master_d ==
    CatalogOf(<<
        DTableEntry(FXY(3, 1, 1), <<FXY(0, 1, 1), FXY(0, 2, 1)>>),
        DTableEntry(FXY(3, 1, 2), <<FXY(1, 1, 0), FXY(0, 31, 1), FXY(0, 1, 1)>>),
        DTableEntry(FXY(3, 1, 3),
                    <<FXY(3, 1, 1), FXY(1, 2, 2), FXY(0, 1, 1), FXY(0, 2, 1)>>),
        \* a catalog with cycles: 3-01-004 holds itself after an element,
        \* 3-01-015 and 3-01-016 hold each other
        DTableEntry(FXY(3, 1, 4), <<FXY(0, 1, 1), FXY(3, 1, 4)>>),
        DTableEntry(FXY(3, 1, 15), <<FXY(3, 1, 16)>>),
        DTableEntry(FXY(3, 1, 16), <<FXY(3, 1, 15)>>)>>)

\* no local tables are loaded (local_table_version = 0)
local_b == None
local_d == None

\* Cache::new
Cache_new(mb, md, lb, ld) ==
    [master_b |-> mb, master_d |-> md, local_b |-> lb, local_d |-> ld]

\* a decoder that asks the master table first
master_first(local_found, master_found) ==
    IF IsSome(master_found) THEN master_found ELSE local_found

\* local.or_else(|| master)
or_else(local_found, master_found) ==
    IF IsSome(local_found) THEN local_found ELSE master_found

lookup_local_b_descriptor(cache, fxy) ==
    IF cache.local_b = None THEN None
    ELSE FilterFxy(lookup(Unwrap(cache.local_b), fxy), fxy)
lookup_master_b_descriptor(cache, fxy) == FilterFxy(lookup(cache.master_b, fxy), fxy)
lookup_local_d_descriptor(cache, fxy) ==
    IF cache.local_d = None THEN None
    ELSE FilterFxy(lookup(Unwrap(cache.local_d), fxy), fxy)
lookup_master_d_descriptor(cache, fxy) == FilterFxy(lookup(cache.master_d, fxy), fxy)

lookup_b_descriptor(cache, fxy) ==
    or_else(lookup_local_b_descriptor(cache, fxy), lookup_master_b_descriptor(cache, fxy))
lookup_d_descriptor(cache, fxy) ==
    or_else(lookup_local_d_descriptor(cache, fxy), lookup_master_d_descriptor(cache, fxy))

Cache_get_b(cache, fxy) == lookup_b_descriptor(cache, fxy)
Cache_get_d(cache, fxy) == lookup_d_descriptor(cache, fxy)

\* the cache decode builds from the decoder's tables
decoder_cache == Cache_new(master_b, master_d, local_b, local_d)

\* cache.get_b(des) and cache.get_d(des) in decode
get_b(fxy) == Cache_get_b(decoder_cache, fxy)
get_d(fxy) == Cache_get_d(decoder_cache, fxy)

(***************************************************************************)
(* Operator state and numeric evaluation                                   *)
(***************************************************************************)
State_new ==
    [common_scale |-> None, common_ref_value |-> None, common_data_width |-> None,
     common_str_width |-> None, local_data_width |-> None, temp_operator |-> None]

no_change(e) ==
    LET is_flag_or_code ==
            e.bufr_unit \in {"flag table", "flag-table", "code table", "code-table"}
        delay_repeat_count == e.fxy.f = 0 /\ e.fxy.x = 31
    IN  is_flag_or_code \/ delay_repeat_count

\* A u32 is held as an integer below 2^31; a result that wrapped below zero is
\* held as the negative number it is congruent to modulo 2^32.
\* `as usize` of such a width: a wrapped width is larger than any buffer.
AsUsize(w) == IF w < 0 THEN 16777216 ELSE w

\* State::datawidth
datawidth(st, e) ==
    IF IsSome(st.local_data_width) THEN Unwrap(st.local_data_width)
    ELSE LET v == IF no_change(e) THEN e.bufr_datawidth_bits
                  ELSE IF IsSome(st.common_data_width)
                       THEN e.bufr_datawidth_bits + (Unwrap(st.common_data_width) - 128)
                       ELSE e.bufr_datawidth_bits
         IN  IF IsSome(st.temp_operator) THEN v + 10 * Unwrap(st.temp_operator) ELSE v

\* State::scale
scale(st, e) ==
    LET v == IF no_change(e) THEN e.bufr_scale
             ELSE IF IsSome(st.common_scale)
                  THEN e.bufr_scale + (128 - Unwrap(st.common_scale))
                  ELSE e.bufr_scale
    IN  IF IsSome(st.temp_operator) THEN e.bufr_scale + Unwrap(st.temp_operator) ELSE v

\* (v as f32 * 10^op) as i32: exact while the product stays below 2^24, and
\* saturating at the ends of i32
RECURSIVE MulPow10(_, _)
MulPow10(v, op) ==
    IF op = 0 \/ v = 0 THEN v
    ELSE IF v > 214748364 THEN 2147483647
    ELSE IF v < -214748364 THEN -2147483647 - 1
    ELSE MulPow10(v * 10, op - 1)

\* State::reference_value
reference_value(st, e) ==
    LET v == e.bufr_reference_value IN
    IF IsSome(st.temp_operator) THEN MulPow10(v, Unwrap(st.temp_operator)) ELSE v

\* f64 values: (raw + reference) * 10^(-scale) is held exactly as mantissa and
\* scale; a raw value too large for the model's integers is held unevaluated.
F64(raw, reference, sc) ==
    IF FitsNat(raw)
    THEN [t |-> "num", mant |-> ToNat(raw) + reference, scale |-> sc]
    ELSE [t |-> "wide", raw |-> raw, reference |-> reference, scale |-> sc]

\* const MISS_VAL: f64 = 99999.999999
MISS_VAL == [t |-> "miss"]

Number(v) == [kind |-> "Number", num |-> v]
Missing == [kind |-> "Missing"]
String(str) == [kind |-> "String", str |-> str]

\* Value::as_f64
as_f64(value) ==
    CASE value.kind = "Number" -> Some(value.num)
      [] value.kind = "Missing" -> Some(MISS_VAL)
      [] value.kind = "String" -> None

Pow10(k) == 10 ^ k

\* v.floor() as usize (the cast saturates: a negative value gives 0)
floor_as_usize(v) ==
    CASE v.t = "miss" -> 99999
      [] v.t = "num" ->
            IF v.mant <= 0 THEN 0
            ELSE IF v.scale <= 0 THEN v.mant * Pow10(0 - v.scale)
            ELSE v.mant \div Pow10(v.scale)

EvalOk(value, inp) == [status |-> "ok", value |-> value, input |-> inp, why |-> ""]
EvalFail(st, inp, why) == [status |-> st, value |-> Missing, input |-> inp, why |-> why]

\* (1 << datawidth) - 1 in u64: the shift overflows when datawidth >= 64. With
\* overflow checks it panics; without, the shift amount is taken modulo 64.
missing_pattern(width) == LowOnes(width % 64)

\* Decoder::evalute, the string arm, once take_string has answered `s`
evalute_string(s) ==
    IF s.status = "ok" THEN EvalOk(String(s.str), s.input)
    ELSE EvalFail(s.status, s.input, s.why)

\* Decoder::evalute, the numeric arm, once get_arbitary_bits has answered `r`
evalute_number(st, e, width, r) ==
    IF r.status # "ok" THEN EvalFail(r.status, r.input, r.why)
    ELSE IF overflow_checks /\ (width >= 64 \/ width < 0)
    THEN EvalFail("panic", r.input, "attempt to shift left with overflow")
    ELSE IF r.value = missing_pattern(width) /\ e.fxy.x # 31
    THEN EvalOk(Missing, r.input)
    ELSE EvalOk(Number(F64(r.value, reference_value(st, e), scale(st, e))), r.input)

\* Decoder::evalute
evalute(st, inp, e) ==
    IF e.bufr_unit = "CCITT IA5"
    THEN LET total_bytes == IF IsSome(st.common_str_width)
                            THEN Unwrap(st.common_str_width)
                            ELSE (e.bufr_datawidth_bits + 7) \div 8
         IN  evalute_string(take_string(inp, total_bytes))
    ELSE evalute_number(st, e, datawidth(st, e),
                        get_arbitary_bits(inp, AsUsize(datawidth(st, e))))

(***************************************************************************)
(* Output record                                                           *)
(***************************************************************************)
\* BUFRParsed::push: one Single entry. `path` is a ghost: the position of the
\* generating descriptor in the expanded program.
Single(value, name, unit, path) ==
    [name |-> name, unit |-> unit, values |-> [t |-> "Single", v |-> value],
     path |-> path]

\* Array::finish: one Array entry
ArrayEntry(vs, name, unit, path) ==
    [name |-> name, unit |-> unit, values |-> [t |-> "Array", vs |-> vs], path |-> path]

(***************************************************************************)
(* Operators (F = 2)                                                       *)
(***************************************************************************)
OpResult(st, why, ostate, inp, out) ==
    [status |-> st, why |-> why, state |-> ostate, input |-> inp, out |-> out]

\* what an F = 0 or F = 2 arm pushes to the record, before its path is known
Pushed(value, name, unit) == [value |-> value, name |-> name, unit |-> unit]

\* Decoder::deal_with_operator, 2-05-Y, once take_string has answered `s`
operator_string(st, s) ==
    IF s.status = "ok"
    THEN OpResult("ok", "", st, s.input, <<Pushed(String(s.str), "", "CAITT IA5")>>)
    ELSE OpResult(s.status, s.why, st, s.input, <<>>)

\* Decoder::deal_with_operator; `out` holds the values it pushes
deal_with_operator(st, operator, inp) ==
    LET x == operator.x
        y == operator.y
        SetOrClear == IF y = 0 THEN None ELSE Some(y)
    IN  CASE x = 1 -> OpResult("ok", "", [st EXCEPT !.common_data_width = SetOrClear],
                               inp, <<>>)
          [] x = 2 -> OpResult("ok", "", [st EXCEPT !.common_scale = SetOrClear], inp, <<>>)
          [] x = 3 -> OpResult("ok", "", [st EXCEPT !.common_ref_value = SetOrClear],
                               inp, <<>>)
          [] x = 5 -> operator_string(st, take_string(inp, y))
          [] x = 6 -> OpResult("ok", "", [st EXCEPT !.local_data_width = Some(y)],
                               inp, <<>>)
          [] x = 7 -> OpResult("ok", "", [st EXCEPT !.temp_operator = Some(y)], inp, <<>>)
          [] x = 8 -> OpResult("ok", "", [st EXCEPT !.common_str_width = SetOrClear],
                               inp, <<>>)
          [] OTHER -> OpResult("ok", "", st, inp, <<>>)

\* a decoder whose elements reset every operator
clear_every_operator(st) == State_new

\* the state after an element has used the one-shot operators
clear_one_shot(st) == [st EXCEPT !.temp_operator = None, !.local_data_width = None]

\* the F = 0 arm of parse_slice once evalute has answered `r`: the value is
\* pushed and the one-shot operators are cleared
element_value(st, e, r) ==
    IF r.status # "ok" THEN OpResult(r.status, r.why, st, r.input, <<>>)
    ELSE OpResult("ok", "", clear_one_shot(st), r.input,
                  <<Pushed(r.value, e.element_name_en, e.bufr_unit)>>)

\* the F = 0 arm of parse_slice once the Table B lookup has answered `found`
element_found(st, inp, found) ==
    IF found = None
    THEN OpResult("err", "Descriptor not found in Table B", st, inp, <<>>)
    ELSE element_value(st, Unwrap(found), evalute(st, inp, Unwrap(found)))

\* the F = 0 arm of parse_slice without the stack: look the element up,
\* evaluate it, clear the one-shot operators
element_effect(st, des, inp) == element_found(st, inp, get_b(des))

(***************************************************************************)
(* Array compiler                                                          *)
(***************************************************************************)
CompilerState_new ==
    [common_scale |-> None, common_ref_value |-> None, common_data_width |-> None,
     temp_operator |-> None, common_str_width |-> None, local_data_width |-> None]

\* Decoder::apply_operator_to_compiler: <<accepted, state>>
apply_operator_to_compiler(cs, operator) ==
    LET x == operator.x
        y == operator.y
        SetOrClear == IF y = 0 THEN None ELSE Some(y)
    IN  CASE x = 1 -> [ok |-> TRUE, state |-> [cs EXCEPT !.common_data_width = SetOrClear]]
          [] x = 2 -> [ok |-> TRUE, state |-> [cs EXCEPT !.common_scale = SetOrClear]]
          [] x = 3 -> [ok |-> TRUE, state |-> [cs EXCEPT !.common_ref_value = SetOrClear]]
          [] x = 5 -> [ok |-> FALSE, state |-> cs]
          [] x = 6 -> [ok |-> TRUE, state |-> [cs EXCEPT !.local_data_width = Some(y)]]
          [] x = 7 -> [ok |-> TRUE, state |-> [cs EXCEPT !.temp_operator = Some(y)]]
          [] x = 8 -> [ok |-> FALSE, state |-> cs]
          [] OTHER -> [ok |-> TRUE, state |-> cs]

compute_effective_width(cs, e) ==
    IF IsSome(cs.local_data_width) THEN Unwrap(cs.local_data_width)
    ELSE LET base_width ==
                 IF no_change(e) THEN e.bufr_datawidth_bits
                 ELSE IF IsSome(cs.common_data_width)
                      THEN e.bufr_datawidth_bits + (Unwrap(cs.common_data_width) - 128)
                      ELSE e.bufr_datawidth_bits
         IN  IF IsSome(cs.temp_operator) THEN base_width + 10 * Unwrap(cs.temp_operator)
             ELSE base_width

compute_effective_scale(cs, e) ==
    LET base_scale ==
            IF no_change(e) THEN e.bufr_scale
            ELSE IF IsSome(cs.common_scale)
                 THEN e.bufr_scale + (128 - Unwrap(cs.common_scale))
                 ELSE e.bufr_scale
    IN  IF IsSome(cs.temp_operator) THEN base_scale + Unwrap(cs.temp_operator)
        ELSE base_scale

compute_effective_reference(cs, e) ==
    LET base_ref == e.bufr_reference_value IN
    IF IsSome(cs.temp_operator) THEN MulPow10(base_ref, Unwrap(cs.temp_operator))
    ELSE base_ref

\* if width == 64 { u64::MAX } else { (1u64 << width) - 1 }
field_missing_value(width) == IF width = 64 THEN LowOnes(64) ELSE LowOnes(width % 64)

\* FieldSpec; `pos` is a ghost: the field's index in the body
FieldSpec(des, e, width, sc, reference, pos) ==
    [fxy |-> FXY(des.f, des.x, des.y), name |-> e.element_name_en, unit |-> e.bufr_unit,
     width_bits |-> width, scale |-> sc, reference |-> reference,
     missing_value |-> field_missing_value(width), pos |-> pos]

CompileResult(st, why, layout) == [status |-> st, why |-> why, layout |-> layout]

\* the loop of try_compile_array_layout over body[i ..] (i counts from 0)
RECURSIVE compile_body(_, _, _, _, _), compile_field(_, _, _, _, _, _)
compile_body(body, i, cs, flds, total_bits) ==
    IF i >= Len(body)
    THEN IF IsSome(cs.temp_operator) THEN CompileResult("ok", "", None)
         ELSE CompileResult("ok", "",
                            Some([fields |-> flds, bits_per_element |-> total_bits]))
    ELSE LET desc == body[i + 1] IN
         CASE desc.f = 0 -> compile_field(body, i, cs, flds, total_bits, get_b(desc))
           [] desc.f = 2 ->
                LET r == apply_operator_to_compiler(cs, desc) IN
                IF ~r.ok THEN CompileResult("ok", "", None)
                ELSE compile_body(body, i + 1, r.state, flds, total_bits)
           [] desc.f \in {1, 3} -> CompileResult("ok", "", None)
           [] OTHER -> CompileResult("err", "Invalid F value", None)

\* the F = 0 arm of that loop once the Table B lookup has answered `found`
compile_field(body, i, cs, flds, total_bits, found) ==
    IF found = None THEN CompileResult("err", "Missing Table B entry", None)
    ELSE LET entry == Unwrap(found)
             width == compute_effective_width(cs, entry)
             sc == compute_effective_scale(cs, entry)
             reference == compute_effective_reference(cs, entry)
         IN  IF entry.bufr_unit = "CCITT IA5" THEN CompileResult("ok", "", None)
             ELSE IF overflow_checks /\ (width > 64 \/ width < 0)
             THEN CompileResult("panic", "attempt to shift left with overflow", None)
             ELSE compile_body(body, i + 1, clear_one_shot(cs),
                               Append(flds, FieldSpec(body[i + 1], entry, width, sc,
                                                      reference, i)),
                               total_bits + AsUsize(width))

\* Decoder::try_compile_array_layout
try_compile_array_layout(body, repeat_count) ==
    IF repeat_count < 16 THEN CompileResult("ok", "", None)
    ELSE compile_body(body, 0, CompilerState_new, <<>>, 0)

\* the value parse_compiled_array stores for one raw field value
field_value(field_spec, raw_value) ==
    IF raw_value = field_spec.missing_value
       /\ ~(field_spec.fxy.f = 0 /\ field_spec.fxy.x = 31)
    THEN MISS_VAL
    ELSE F64(raw_value, field_spec.reference, field_spec.scale)

ArraysResult(st, why, inp, total_values) ==
    [status |-> st, why |-> why, input |-> inp, total_values |-> total_values]

\* the inner loop of parse_compiled_array from field i (from 1): one repetition
RECURSIVE read_fields(_, _, _, _)
read_fields(flds, i, inp, total_values) ==
    IF i > Len(flds) THEN ArraysResult("ok", "", inp, total_values)
    ELSE LET got == get_arbitary_bits(inp, AsUsize(flds[i].width_bits)) IN
         IF got.status # "ok" THEN ArraysResult(got.status, got.why, got.input, total_values)
         ELSE read_fields(flds, i + 1, got.input,
                          [total_values EXCEPT
                              ![i] = Append(@, field_value(flds[i], got.value))])

\* the outer loop of parse_compiled_array from repetition r (from 1), the
\* repetitions before it having left `row`
RECURSIVE read_arrays(_, _, _, _)
read_arrays(flds, repeat_count, r, row) ==
    IF r > repeat_count \/ row.status # "ok" THEN row
    ELSE read_arrays(flds, repeat_count, r + 1,
                     read_fields(flds, 1, row.input, row.total_values))

\* a decoder that emits the arrays last field first
finish_arrays_reversed(flds, values, base, got) ==
    [status |-> got.status, why |-> got.why, input |-> got.input,
     values |-> IF got.status # "ok" THEN values
                ELSE values \o [i \in 1..Len(flds) |->
                                   LET m == Len(flds) + 1 - i IN
                                   ArrayEntry(got.total_values[m], flds[m].name,
                                              flds[m].unit, base \o <<0, flds[m].pos>>)]]

\* the end of parse_compiled_array: one Array entry per field, in field order
finish_arrays(flds, values, base, got) ==
    [status |-> got.status, why |-> got.why, input |-> got.input,
     values |-> IF got.status # "ok" THEN values
                ELSE values \o [i \in 1..Len(flds) |->
                                   ArrayEntry(got.total_values[i], flds[i].name,
                                              flds[i].unit, base \o <<0, flds[i].pos>>)]]

\* Decoder::parse_compiled_array: the arrays read, then one Array entry per field
parse_compiled_array(layout, repeat_count, inp, values, base) ==
    finish_arrays(layout.fields, values, base,
                  IF layout.fields = <<>> THEN ArraysResult("ok", "", inp, <<>>)
                  ELSE read_arrays(layout.fields, repeat_count, 1,
                                   ArraysResult("ok", "", inp,
                                                [i \in 1..Len(layout.fields) |-> <<>>])))

(***************************************************************************)
(* Frames and the interpreter                                              *)
(***************************************************************************)
\* `base` is a ghost: the path of the descriptor that opened the frame. The
\* descriptor at index idx of a Slice has path base \o <<idx>>; repetition r of
\* a replication at path p runs its body under base p \o <<r>>.
Slice(descs, idx, base) == [t |-> "Slice", descs |-> descs, idx |-> idx, base |-> base]
Repeat(descs, times, current, base) ==
    [t |-> "Repeat", descs |-> descs, times |-> times, current |-> current, base |-> base]
CompiledArray(layout, times, base, body) ==
    [t |-> "CompiledArray", layout |-> layout, times |-> times, base |-> base,
     body |-> body]

Push(stk, frame) == Append(stk, frame)
Top(stk) == stk[Len(stk)]
Pop(stk) == SubSeq(stk, 1, Len(stk) - 1)

\* what one loop iteration of decode works on and leaves behind
Ctx(stk, st, inp, values, vis, cnt) ==
    [status |-> "running", why |-> "", stack |-> stk, state |-> st, data |-> inp,
     record |-> values, visited |-> vis, counts |-> cnt]

Fail(cx, st, why) == [cx EXCEPT !.status = st, !.why = why]

\* a decoder that leaves the slice it popped on the stack, emptied, below the
\* continuation
push_continuation_over(stk, descs, idx, base) ==
    Push(Push(stk, [t |-> "Slice", descs |-> descs, idx |-> Len(descs), base |-> base]),
         [t |-> "Slice", descs |-> descs, idx |-> idx + 1, base |-> base])

\* the frames the F = 0 and F = 2 arms push: the continuation
push_continuation(stk, descs, idx, base) == Push(stk, Slice(descs, idx + 1, base))

\* the end of the F = 0 and F = 2 arms: an error is returned; else the values
\* are pushed in order, the state is stored and the continuation is pushed
push_values(cx, r, idx, descs, base) ==
    IF r.status # "ok" THEN [Fail(cx, r.status, r.why) EXCEPT !.data = r.input]
    ELSE [cx EXCEPT
             !.state = r.state,
             !.data = r.input,
             !.record = @ \o [i \in 1..Len(r.out) |->
                                 Single(r.out[i].value, r.out[i].name, r.out[i].unit,
                                        base \o <<idx>>)],
             !.stack = push_continuation(@, descs, idx, base)]

\* parse_slice, F = 0
parse_element(cx, des, idx, descs, base) ==
    push_values(cx, element_effect(cx.state, des, cx.data), idx, descs, base)

UsizeResult(st, why, count, inp) ==
    [status |-> st, why |-> why, count |-> count, input |-> inp]

\* Decoder::parse_usize once evalute has answered `r`
usize_value(r) ==
    IF r.status # "ok" THEN UsizeResult(r.status, r.why, 0, r.input)
    ELSE IF IsSome(as_f64(r.value))
    THEN UsizeResult("ok", "", floor_as_usize(Unwrap(as_f64(r.value))), r.input)
    ELSE UsizeResult("err", "Format Error", 0, r.input)

\* Decoder::parse_usize once the Table B lookup has answered `found`
usize_found(st, inp, found) ==
    IF found = None THEN UsizeResult("err", "Descriptor not found in Table B", 0, inp)
    ELSE usize_value(evalute(st, inp, Unwrap(found)))

\* Decoder::parse_usize: the state is borrowed, never changed
parse_usize(st, des, inp) ==
    IF des.f = 0 THEN usize_found(st, inp, get_b(des))
    ELSE UsizeResult("err", "Descriptor not found in Table B", 0, inp)

\* a decoder whose continuation takes up the body's last descriptor again
push_replication_early(stk, descs, body_end, base, frame) ==
    Push(Push(stk, Slice(descs, body_end - 1, base)), frame)

\* the frames the F = 1 arm pushes: the continuation past the body, then the
\* replication frame on top of it
push_replication(stk, descs, body_end, base, frame) ==
    Push(Push(stk, Slice(descs, body_end, base)), frame)

\* the frame a replication runs in: the compiled array if there is a layout
replication_frame(compiled_layout, body, y, path) ==
    IF IsSome(compiled_layout)
    THEN CompiledArray(Unwrap(compiled_layout), y, path, body)
    ELSE Repeat(body, y, 0, path)

\* parse_slice, F = 1, once try_compile_array_layout has answered `lay`
replicate_layout(cx, idx, descs, base, cnt, body, body_end, lay) ==
    IF lay.status # "ok" THEN [Fail(cx, lay.status, lay.why) EXCEPT !.data = cnt.input]
    ELSE [cx EXCEPT
             !.data = cnt.input,
             !.counts = Append(@, [path |-> base \o <<idx>>, times |-> cnt.count,
                                   compiled |-> IsSome(lay.layout), body |-> body]),
             !.stack = push_replication(@, descs, body_end, base,
                                        replication_frame(lay.layout, body, cnt.count,
                                                          base \o <<idx>>))]

\* parse_slice, F = 1, once the count is known (`cnt`: Y, or parse_usize's answer)
replicate_count(cx, des, idx, descs, base, cnt) ==
    LET body_start == IF des.y = 0 THEN idx + 2 ELSE idx + 1
        body_end == body_start + des.x
        body == SubSeq(descs, body_start + 1, body_end)
    IN  IF cnt.status # "ok"
        THEN [Fail(cx, cnt.status, cnt.why) EXCEPT !.data = cnt.input]
        ELSE IF body_end > Len(descs)
        THEN [Fail(cx, "err", "Not enough descriptors to repeat") EXCEPT
                 !.data = cnt.input]
        ELSE replicate_layout(cx, idx, descs, base, cnt, body, body_end,
                              try_compile_array_layout(body, cnt.count))

\* parse_slice, F = 1
parse_replication(cx, des, idx, descs, base) ==
    IF des.y # 0
    THEN replicate_count(cx, des, idx, descs, base, UsizeResult("ok", "", des.y, cx.data))
    \* &raw[idx + 1] panics when the replication is the last descriptor
    ELSE IF idx + 1 >= Len(descs) THEN Fail(cx, "panic", "index out of bounds")
    ELSE replicate_count([cx EXCEPT !.visited = Append(@, base \o <<idx + 1>>)],
                         des, idx, descs, base,
                         parse_usize(cx.state, descs[idx + 2], cx.data))

\* parse_slice, F = 2
parse_operator(cx, des, idx, descs, base) ==
    push_values(cx, deal_with_operator(cx.state, des, cx.data), idx, descs, base)

\* a decoder that pushes the sequence's chain below the continuation
push_sequence_below(stk, descs, idx, base, fxy_chain) ==
    Push(Push(stk, Slice(fxy_chain, 0, base \o <<idx>>)), Slice(descs, idx + 1, base))

\* the frames the F = 3 arm pushes: the continuation, then the sequence's chain
push_sequence(stk, descs, idx, base, fxy_chain) ==
    Push(Push(stk, Slice(descs, idx + 1, base)), Slice(fxy_chain, 0, base \o <<idx>>))

\* parse_slice, F = 3, once the Table D lookup has answered `found`
sequence_found(cx, idx, descs, base, found) ==
    IF found = None THEN Fail(cx, "err", "Sequence descriptor not found in Table D")
    ELSE [cx EXCEPT !.stack = push_sequence(@, descs, idx, base, Unwrap(found).fxy_chain)]

\* parse_slice, F = 3
parse_sequence(cx, des, idx, descs, base) ==
    sequence_found(cx, idx, descs, base, get_d(des))

\* Decoder::parse_slice
parse_slice(cx, des, idx, descs, base) ==
    LET seen == [cx EXCEPT !.visited = Append(@, base \o <<idx>>)] IN
    CASE des.f = 0 -> parse_element(seen, des, idx, descs, base)
      [] des.f = 1 -> parse_replication(seen, des, idx, descs, base)
      [] des.f = 2 -> parse_operator(seen, des, idx, descs, base)
      [] des.f = 3 -> parse_sequence(seen, des, idx, descs, base)
      [] OTHER -> Fail(cx, "err", "Invalid descriptor F value")

\* a decoder that stops one repetition early
parse_repeating_short(times, current, descs, stk, base) ==
    IF current + 1 >= times THEN stk
    ELSE Push(Push(stk, Repeat(descs, times, current + 1, base)),
              Slice(descs, 0, base \o <<current + 1>>))

\* Decoder::parse_repeating
parse_repeating(times, current, descs, stk, base) ==
    IF current >= times THEN stk
    ELSE Push(Push(stk, Repeat(descs, times, current + 1, base)),
              Slice(descs, 0, base \o <<current + 1>>))

(***************************************************************************)
(* Decoder::decode: the messages decoded and the stack loop                *)
(***************************************************************************)
MaxProgLen == 3

\* the descriptors a message's section 3 is drawn from
Alphabet ==
    {FXY(0, 1, 1), FXY(0, 31, 1), FXY(0, 1, 15), FXY(0, 1, 2),
     FXY(1, 1, 0), FXY(1, 1, 16), FXY(2, 1, 129), FXY(2, 1, 0), FXY(2, 6, 4),
     FXY(3, 1, 2), FXY(3, 1, 3)}

Programs == SeqsUpTo(Alphabet, MaxProgLen)

\* the data sections (section 4) a message is drawn from: counter 3 followed by
\* the 7-bit values 1, 2, 3 and mixed bytes; and all bits set
Payloads ==
    {<<3, 2, 8, 48, 129, 66, 36, 255, 0, 17, 34, 51, 68, 85, 102, 119>>,
     [i \in 1..16 |-> 255]}

\* ghost: what the last loop iteration did
LastStep(op, f, counter) == [op |-> op, f |-> f, counter |-> counter]

\* the reader harness's and the catalog's variables, unused by the decoder
IdleHarness ==
    /\ fields = <<>>
    /\ nread = 0
    /\ catalog = <<>>

\* the locals of decode at the top of its loop, before the first iteration
Init ==
    /\ overflow_checks \in BOOLEAN
    /\ descriptors \in Programs
    /\ \E payload \in Payloads : data = BitInput(payload)
    /\ state = State_new
    /\ stack = <<Slice(descriptors, 0, <<>>)>>
    /\ record = <<>>
    /\ status = "running"
    /\ visited = <<>>
    /\ counts = <<>>
    /\ compiled = None
    /\ steps = 0
    /\ last = LastStep("decode", -1, FALSE)
    /\ IdleHarness
    /\ IdleElsewhere

Unused == <<overflow_checks, descriptors, fields, nread, catalog>>

\* the locals of decode after a loop iteration that left them as `cx`
Resume(cx, step) ==
    /\ stack' = cx.stack
    /\ state' = cx.state
    /\ data' = cx.data
    /\ record' = cx.record
    /\ visited' = cx.visited
    /\ counts' = cx.counts
    /\ status' = cx.status
    /\ last' = [step EXCEPT !.counter = @ /\ cx.data # data]

\* the loop pops a Slice frame: past its end it is dropped, else parse_slice
\* runs on the descriptor at idx
StepSlice ==
    /\ status = "running"
    /\ stack # <<>>
    /\ Top(stack).t = "Slice"
    /\ LET frame == Top(stack)
           des == frame.descs[frame.idx + 1]
           cx == Ctx(Pop(stack), state, data, record, visited, counts)
       IN  IF frame.idx >= Len(frame.descs)
           THEN Resume(cx, LastStep("slice_end", -1, FALSE))
           ELSE Resume(parse_slice(cx, des, frame.idx, frame.descs, frame.base),
                       LastStep("parse_slice", des.f, des.f = 1 /\ des.y = 0))
    /\ compiled' = None
    /\ steps' = steps + 1
    /\ UNCHANGED Unused
    /\ UNCHANGED Elsewhere

\* the loop pops a Repeat frame
StepRepeat ==
    /\ status = "running"
    /\ stack # <<>>
    /\ Top(stack).t = "Repeat"
    /\ LET frame == Top(stack) IN
       stack' = parse_repeating(frame.times, frame.current, frame.descs, Pop(stack),
                                frame.base)
    /\ last' = LastStep("parse_repeating", -1, FALSE)
    /\ compiled' = None
    /\ UNCHANGED <<state, data, record, visited, counts, status>>
    /\ steps' = steps + 1
    /\ UNCHANGED Unused
    /\ UNCHANGED Elsewhere

\* the locals of decode after parse_compiled_array has answered `r`
ResumeArray(frame, r) ==
    /\ stack' = Pop(stack)
    /\ data' = r.input
    /\ record' = r.values
    /\ status' = IF r.status = "ok" THEN "running" ELSE r.status
    \* ghost: the body's descriptors are processed together, as repetition 0
    /\ visited' = visited \o [i \in 1..Len(frame.body) |-> frame.base \o <<0, i - 1>>]
    /\ compiled' = IF r.status # "ok" THEN None
                   ELSE Some([body |-> frame.body, times |-> frame.times,
                              state0 |-> state, data0 |-> data,
                              first |-> Len(record) + 1,
                              nfields |-> Len(frame.layout.fields),
                              layout |-> frame.layout])

\* the loop pops a CompiledArray frame
StepCompiledArray ==
    /\ status = "running"
    /\ stack # <<>>
    /\ Top(stack).t = "CompiledArray"
    /\ ResumeArray(Top(stack),
                   parse_compiled_array(Top(stack).layout, Top(stack).times, data, record,
                                        Top(stack).base))
    /\ last' = LastStep("parse_compiled_array", -1, FALSE)
    /\ UNCHANGED <<state, counts>>
    /\ steps' = steps + 1
    /\ UNCHANGED Unused
    /\ UNCHANGED Elsewhere

\* the stack is empty: the loop ends and decode returns Ok(record)
Finish ==
    /\ status = "running"
    /\ stack = <<>>
    /\ status' = "ok"
    /\ last' = LastStep("return", -1, FALSE)
    /\ compiled' = None
    /\ UNCHANGED <<state, stack, data, record, visited, counts>>
    /\ steps' = steps + 1
    /\ UNCHANGED Unused
    /\ UNCHANGED Elsewhere

Next == StepSlice \/ StepRepeat \/ StepCompiledArray \/ Finish

Spec == Init /\ [][Next]_vars

\* one more iteration of the loop of decode, whatever it does
Iterate == status = "running" /\ steps' = steps + 1

\* the loop of decode runs until it returns: while decode has not returned, the
\* next iteration (a step of Next, each of which counts in steps) is taken
FairSpec == Spec /\ WF_steps(Iterate)

(***************************************************************************)
(* Properties of the decode loop                                           *)
(***************************************************************************)
\* the body of a replication decoded through the Repeat frame, without the
\* stack: repetition r, descriptor i (from 1) of a body of elements and operators
RECURSIVE interpret_repeat(_, _, _, _, _, _, _)
interpret_repeat(body, times, r, i, st, inp, out) ==
    IF r > times THEN OpResult("ok", "", st, inp, out)
    ELSE IF i > Len(body) THEN interpret_repeat(body, times, r + 1, 1, st, inp, out)
    ELSE LET step == IF body[i].f = 0 THEN element_effect(st, body[i], inp)
                     ELSE deal_with_operator(st, body[i], inp)
         IN  IF step.status # "ok"
             THEN OpResult(step.status, step.why, step.state, step.input, out)
             ELSE interpret_repeat(body, times, r, i + 1, step.state, step.input,
                                   out \o step.out)

\* a Value as an array stores it
ArrayValue(value) == IF value.kind = "Number" THEN value.num ELSE MISS_VAL

\* two f64 values are the same number
SameF64(a, b) ==
    IF a.t = "num" /\ b.t = "num"
    THEN LET m == IF a.scale > b.scale THEN a.scale ELSE b.scale
         IN  a.mant * Pow10(m - a.scale) = b.mant * Pow10(m - b.scale)
    ELSE a = b

\* C1: whatever operator state is in effect at the replication, the arrays the
\* CompiledArray frame produced hold, per field and per repetition, the value
\* the Repeat frame decodes from the same body, state and payload.
C1_CompiledEqualsInterpreted ==
    (IsSome(compiled) /\ Unwrap(compiled).nfields > 0) =>
        LET c == Unwrap(compiled)
            it == interpret_repeat(c.body, c.times, 1, 1, c.state0, c.data0, <<>>)
        IN  /\ it.status = "ok"
            /\ Len(it.out) = c.times * c.nfields
            /\ \A j \in 1..c.nfields, r \in 1..c.times :
                  SameF64(record[c.first + j - 1].values.vs[r],
                          ArrayValue(it.out[(r - 1) * c.nfields + j].value))

\* an F = 0 element has just been read from the bit stream and the decode goes on
ElementRead ==
    /\ last.op = "parse_slice"
    /\ status = "running"
    /\ last.f = 0 \/ last.counter

\* C2: after any F = 0 element has been read, as a program step or as the
\* counter of a delayed replication, local_data_width and temp_operator are None.
C2_OneShotCleared ==
    ElementRead => state.local_data_width = None /\ state.temp_operator = None

\* C5: once the counter of a delayed replication has been decoded, the output
\* record holds an entry for the counter element (before any entry of the body).
C5_CounterInRecord ==
    (last.op = "parse_slice" /\ last.counter /\ status = "running") =>
        \E i \in 1..Len(record) : record[i].path = visited[Len(visited)]

\* the replication descriptor the next loop iteration works on is malformed
MalformedReplication ==
    /\ status = "running"
    /\ stack # <<>>
    /\ Top(stack).t = "Slice"
    /\ Top(stack).idx < Len(Top(stack).descs)
    /\ LET descs == Top(stack).descs
           idx == Top(stack).idx
           des == descs[idx + 1]
           body_start == IF des.y = 0 THEN idx + 2 ELSE idx + 1
           counter == get_b(descs[idx + 2])
           value == evalute(state, data, Unwrap(counter))
       IN  /\ des.f = 1
           /\ \/ des.y = 0 /\ idx + 1 >= Len(descs)
              \/ des.y = 0 /\ idx + 1 < Len(descs) /\ descs[idx + 2].f # 0
              \/ /\ des.y = 0 /\ idx + 1 < Len(descs) /\ descs[idx + 2].f = 0
                 /\ IsSome(counter)
                 /\ value.status = "ok"
                 /\ value.value.kind \in {"String", "Missing"}
              \/ body_start + des.x > Len(descs)

\* C6: a malformed replication ends the decode with an error value: no panic,
\* and no count made up to go on with.
C6_MalformedReplicationIsError ==
    [][MalformedReplication => status' = "err"]_vars

\* lexicographic order of paths
RECURSIVE PathLess(_, _)
PathLess(p, q) ==
    IF q = <<>> THEN FALSE
    ELSE IF p = <<>> THEN TRUE
    ELSE IF p[1] # q[1] THEN p[1] < q[1]
    ELSE PathLess(Tail(p), Tail(q))

\* the replication count the decode used at path p
CountAt(p) == counts[CHOOSE i \in 1..Len(counts) : counts[i].path = p]

\* the depth-first, left-to-right expansion of descs[idx ..] under `base`
RECURSIVE Expand(_, _, _), ExpandRepeat(_, _, _, _)
Expand(descs, idx, base) ==
    IF idx >= Len(descs) THEN <<>>
    ELSE LET des == descs[idx + 1]
             p == base \o <<idx>>
             body_start == IF des.y = 0 THEN idx + 2 ELSE idx + 1
             body == SubSeq(descs, body_start + 1, body_start + des.x)
         IN  CASE des.f = 3 ->
                    <<p>> \o Expand(Unwrap(get_d(des)).fxy_chain, 0, p)
                          \o Expand(descs, idx + 1, base)
               [] des.f = 1 ->
                    <<p>> \o (IF des.y = 0 THEN <<base \o <<idx + 1>>>> ELSE <<>>)
                          \o (IF CountAt(p).compiled
                              THEN [i \in 1..Len(body) |-> p \o <<0, i - 1>>]
                              ELSE ExpandRepeat(body, 1, CountAt(p).times, p))
                          \o Expand(descs, body_start + des.x, base)
               [] OTHER -> <<p>> \o Expand(descs, idx + 1, base)

ExpandRepeat(body, r, times, p) ==
    IF r > times THEN <<>>
    ELSE Expand(body, 0, p \o <<r>>) \o ExpandRepeat(body, r + 1, times, p)

\* C7: the decode loop ends (empty stack or error), and when it ends without
\* error the descriptors processed are those of the fully expanded program.
C7_TerminatesAllProcessed ==
    /\ <>(status # "running")
    /\ [](status = "ok" => visited = Expand(descriptors, 0, <<>>))

\* a decode that ended without error after a sequence and at least two
\* repetitions of an interpreted body
C7_Witness ==
    /\ status = "ok"
    /\ \E i \in 1..Len(counts) : counts[i].times >= 2 /\ ~counts[i].compiled
    /\ \E i \in 1..Len(descriptors) : descriptors[i].f = 3
    /\ Len(visited) >= 6

\* C8: the entries of the output record are in the order of the depth-first,
\* left-to-right expansion of the program.
C8_DepthFirstOrder ==
    \A i, j \in 1..Len(record) : i < j => PathLess(record[i].path, record[j].path)

\* entries of a sequence nested in a sequence and of a replication, followed by
\* an entry of a descriptor of the top-level program
C8_Witness ==
    /\ status = "ok"
    /\ counts # <<>>
    /\ \E i, j \in 1..Len(record) :
          i < j /\ Len(record[i].path) >= 3 /\ Len(record[j].path) = 1

\* the descriptor at a path of the expanded program
RECURSIVE DescAt(_, _)
DescAt(descs, path) ==
    LET des == descs[path[1] + 1]
        body_start == IF des.y = 0 THEN path[1] + 2 ELSE path[1] + 1
    IN  IF Len(path) = 1 THEN des
        ELSE IF des.f = 3 THEN DescAt(Unwrap(get_d(des)).fxy_chain, Tail(path))
        ELSE DescAt(SubSeq(descs, body_start + 1, body_start + des.x),
                    Tail(Tail(path)))

\* Y of the last operator 2-01-Y among the descriptors processed (0: none, or
\* the last one is 2-01-000)
RECURSIVE WidthOperator(_)
WidthOperator(vis) ==
    IF vis = <<>> THEN 0
    ELSE LET des == DescAt(descriptors, vis[Len(vis)]) IN
         IF des.f = 2 /\ des.x = 1 THEN des.y
         ELSE WidthOperator(SubSeq(vis, 1, Len(vis) - 1))

\* the width of element e under the width operator in effect
WidthInEffect(e) ==
    IF no_change(e) \/ WidthOperator(visited) = 0 THEN e.bufr_datawidth_bits
    ELSE e.bufr_datawidth_bits + (WidthOperator(visited) - 128)

\* a numeric element of Table B with no one-shot operator pending
NumericElement(des) ==
    /\ des.f = 0
    /\ IsSome(get_b(des))
    /\ Unwrap(get_b(des)).bufr_unit # "CCITT IA5"
    /\ state.local_data_width = None
    /\ state.temp_operator = None

RECURSIVE SumWidths(_, _)
SumWidths(body, i) ==
    IF i > Len(body) THEN 0
    ELSE WidthInEffect(Unwrap(get_b(body[i]))) + SumWidths(body, i + 1)

\* the next loop iteration reads a numeric element, one by one
ReadsElement ==
    /\ status = "running" /\ status' = "running"
    /\ stack # <<>>
    /\ Top(stack).t = "Slice"
    /\ Top(stack).idx < Len(Top(stack).descs)
    /\ NumericElement(Top(stack).descs[Top(stack).idx + 1])

\* the next loop iteration reads a body of numeric elements as arrays
ReadsArray ==
    /\ status = "running" /\ status' = "running"
    /\ stack # <<>>
    /\ Top(stack).t = "CompiledArray"
    /\ \A i \in 1..Len(Top(stack).body) : NumericElement(Top(stack).body[i])

\* C12: a numeric element that follows operator 2-01-Y (Y # 0) is read with
\* its table width + (Y - 128), and one that follows 2-01-000 (or no 2-01
\* operator) with its table width, in a replication body as anywhere else.
C12_WidthOperatorInEffect ==
    [][/\ ReadsElement =>
             BitsLeft(data) - BitsLeft(data')
                 = WidthInEffect(Unwrap(get_b(Top(stack).descs[Top(stack).idx + 1])))
       /\ ReadsArray =>
             BitsLeft(data) - BitsLeft(data')
                 = Top(stack).times * SumWidths(Top(stack).body, 1)]_vars

(***************************************************************************)
(* Evaluation of one element under a width set by an operator              *)
(***************************************************************************)
\* Y of the 2-06-Y operators applied before the element
EvalWidths == {1, 2, 7, 8, 9, 31, 32, 33, 63, 64}

\* the operators applied before the element: 2-06-Y, 2-01-Y changing the
\* table width by 1 and by 57, 2-02-Y changing the scale by -1, and 2-07-1
EvalOperators ==
    {FXY(2, 6, w) : w \in EvalWidths}
        \cup {FXY(2, 1, 129), FXY(2, 1, 185), FXY(2, 2, 129), FXY(2, 7, 1)}

EvalElements == {FXY(0, 1, 1), FXY(0, 2, 1), FXY(0, 31, 1)}

\* nine bytes: all ones; all zero; ones but bit 64; ones but bit 1; alternating
EvalPayloads ==
    {[i \in 1..9 |-> 255], [i \in 1..9 |-> 0],
     [i \in 1..9 |-> IF i = 8 THEN 254 ELSE 255],
     [i \in 1..9 |-> IF i = 1 THEN 127 ELSE 255],
     [i \in 1..9 |-> 170]}

NoElement == [op |-> "none", fxy |-> FXY(0, 0, 0), width |-> 0, scale |-> 0,
              before |-> BitInput(<<>>), res |-> OpResult("ok", "", State_new,
                                                          BitInput(<<>>), <<>>)]

InitEval ==
    /\ overflow_checks \in BOOLEAN
    /\ \E payload \in EvalPayloads : data = BitInput(payload)
    /\ state = State_new
    /\ status = "running"
    /\ last = NoElement
    /\ descriptors = <<>>
    /\ stack = <<>>
    /\ record = <<>>
    /\ visited = <<>>
    /\ counts = <<>>
    /\ compiled = None
    /\ steps = 0
    /\ IdleHarness
    /\ IdleElsewhere

\* parse_slice, F = 2, on a width operator
SetWidth ==
    /\ status = "running"
    /\ state = State_new
    /\ \E operator \in EvalOperators :
          state' = deal_with_operator(state, operator, data).state
    /\ UNCHANGED <<overflow_checks, descriptors, data, stack, record, status, visited,
                   counts, compiled, steps, fields, nread, catalog, last>>
    /\ UNCHANGED Elsewhere

\* the state, cursor and status an element leaves behind
AfterElement(des, r) ==
    /\ last' = [op |-> "element", fxy |-> des,
                width |-> datawidth(state, Unwrap(get_b(des))),
                scale |-> scale(state, Unwrap(get_b(des))), before |-> data,
                res |-> r]
    /\ state' = r.state
    /\ data' = r.input
    /\ status' = IF r.status = "ok" THEN "evaluated" ELSE r.status

\* parse_slice, F = 0, on an element of Table B
EvaluateElement ==
    /\ status = "running"
    /\ \E des \in EvalElements : AfterElement(des, element_effect(state, des, data))
    /\ UNCHANGED <<overflow_checks, descriptors, stack, record, visited, counts,
                   compiled, steps, fields, nread, catalog>>
    /\ UNCHANGED Elsewhere

NextEval == SetWidth \/ EvaluateElement

SpecEval == InitEval /\ [][NextEval]_vars

\* bit k (from 1, MSB first) of a byte sequence
BitAt(bytes, k) == (bytes[(k - 1) \div 8 + 1] \div Pow2(7 - ((k - 1) % 8))) % 2

\* the first w bits are all ones
AllOnes(bytes, w) == \A k \in 1..w : BitAt(bytes, k) = 1

\* C3: for every effective width in 1..64, a numeric element not of kind
\* (F = 0, X = 31) evaluates to Missing exactly when the bits read are all ones,
\* and to a Number otherwise.
C3_MissingIffAllOnes ==
    (last.op = "element" /\ last.width \in 1..64 /\ last.fxy.x # 31) =>
        /\ last.res.status = "ok"
        /\ last.res.out[1].value.kind \in {"Missing", "Number"}
        /\ last.res.out[1].value.kind = "Missing"
              <=> AllOnes(last.before.bytes, last.width)

(***************************************************************************)
(* Catalogs built from source entries and looked up                        *)
(***************************************************************************)
MaxEntries == 3

KeyUniverse == {FXY(0, 1, 1), FXY(0, 1, 2), FXY(0, 2, 1), FXY(0, 31, 1)}

SourceEntry(fxy) == BTableEntry(fxy, "", "Numeric", 0, 0, 8)

\* GOFunction::from_slice(keys): a minimal perfect hash of `keys`; for any other
\* key of `universe`, get answers None or some slot
GOFunctionsOn(universe, keys) ==
    {g \in [universe -> {None} \cup {Some(i) : i \in 0..Cardinality(keys) - 1}] :
        /\ \A k \in keys : g[k] # None
        /\ \A k1, k2 \in keys : g[k1] = g[k2] => k1 = k2}

GOFunctions(keys) == GOFunctionsOn(KeyUniverse, keys)

\* a build that stores the entries in the order of their keys
BUFRTF_by_key(entries, mphf) ==
    [mphf |-> mphf,
     entries |-> [i \in 1..Cardinality(entries) |->
                     CHOOSE e \in entries :
                        Cardinality({d \in entries :
                            d.fxy.f * 16384 + d.fxy.x * 256 + d.fxy.y
                                < e.fxy.f * 16384 + e.fxy.x * 256 + e.fxy.y}) = i - 1]]

\* BUFRTF::new: the entries sorted by the hash of their key
BUFRTF_new(entries, mphf) ==
    [mphf |-> mphf,
     entries |-> [i \in 1..Cardinality(entries) |->
                     CHOOSE e \in entries : mphf[e.fxy] = Some(i - 1)]]

NoLookup == [op |-> "none", key |-> FXY(0, 0, 0), res |-> None]

InitCatalog ==
    /\ \E keys \in SUBSET KeyUniverse :
          /\ keys # {}
          /\ Cardinality(keys) <= MaxEntries
          /\ \E mphf \in GOFunctions(keys) :
                catalog = BUFRTF_new({SourceEntry(k) : k \in keys}, mphf)
    /\ last = NoLookup
    /\ status = "running"
    /\ overflow_checks = FALSE
    /\ data = BitInput(<<>>)
    /\ fields = <<>>
    /\ nread = 0
    /\ descriptors = <<>>
    /\ state = <<>>
    /\ stack = <<>>
    /\ record = <<>>
    /\ visited = <<>>
    /\ counts = <<>>
    /\ compiled = <<>>
    /\ steps = 0
    /\ IdleElsewhere

\* BUFRTableMPH::lookup called directly
Lookup ==
    /\ \E fxy \in KeyUniverse :
          last' = [op |-> "lookup", key |-> fxy, res |-> lookup(catalog, fxy)]
    /\ UNCHANGED <<overflow_checks, descriptors, data, state, stack, record, status,
                   visited, counts, compiled, steps, fields, nread, catalog>>
    /\ UNCHANGED Elsewhere

\* the decoder's lookup of a table: lookup(fxy).filter(|e| &e.fxy == fxy)
LookupDescriptor ==
    /\ \E fxy \in KeyUniverse :
          last' = [op |-> "lookup_descriptor", key |-> fxy,
                   res |-> FilterFxy(lookup(catalog, fxy), fxy)]
    /\ UNCHANGED <<overflow_checks, descriptors, data, state, stack, record, status,
                   visited, counts, compiled, steps, fields, nread, catalog>>
    /\ UNCHANGED Elsewhere

NextCatalog == Lookup \/ LookupDescriptor

SpecCatalog == InitCatalog /\ [][NextCatalog]_vars

CatalogKeys == {catalog.entries[i].fxy : i \in 1..Len(catalog.entries)}

\* C10 as stated: lookup hands back Some(entry) only when the entry's FXY equals
\* the queried key.
C10_LookupOnlyOwnKey ==
    (last.op = "lookup" /\ IsSome(last.res)) => Unwrap(last.res).fxy = last.key

\* C10 as the code has it: lookup finds every key of the catalog, and may hand
\* back an entry of another key for a key that is not in it; the decoder's table
\* lookups filter on FXY, and hand back Some(entry) only for the entry of the key.
C10_DecoderLookupOnlyOwnKey ==
    /\ (last.op = "lookup_descriptor" /\ IsSome(last.res)) =>
          Unwrap(last.res).fxy = last.key
    /\ (last.op \in {"lookup", "lookup_descriptor"} /\ last.key \in CatalogKeys) =>
          last.res = Some(SourceEntry(last.key))

\* a key that is not in the catalog hashes to a slot, and the decoder's lookup
\* answers None
C10_Witness ==
    /\ last.op = "lookup_descriptor"
    /\ last.key \notin CatalogKeys
    /\ IsSome(lookup(catalog, last.key))
    /\ last.res = None

(***************************************************************************)
(* The decoder's cache over local and master tables                        *)
(***************************************************************************)
TableKeysB == {FXY(0, 1, 1), FXY(0, 1, 2), FXY(0, 2, 1)}
TableKeysD == {FXY(3, 1, 1), FXY(3, 1, 2)}

MasterB(fxy) == BTableEntry(fxy, "master", "Numeric", 0, 0, 8)
LocalB(fxy) == BTableEntry(fxy, "local", "Numeric", 0, 0, 12)
MasterD(fxy) == DTableEntry(fxy, <<FXY(0, 1, 1)>>)
LocalD(fxy) == DTableEntry(fxy, <<FXY(0, 1, 2)>>)

\* BufrTableMph::build for every choice of at most MaxEntries keys of
\* `universe` and every perfect hash of them
Tables(universe, Entry(_)) ==
    UNION {{BUFRTF_new({Entry(k) : k \in keys}, mphf) :
               mphf \in GOFunctionsOn(universe, keys)} :
           keys \in {ks \in SUBSET universe :
                        ks # {} /\ Cardinality(ks) <= MaxEntries}}

Optional(S) == {None} \cup {Some(t) : t \in S}

\* Decoder::new with any master tables and any or no local tables, then the
\* Cache::new of decode
InitTables ==
    /\ \E mb \in Tables(TableKeysB, MasterB), md \in Tables(TableKeysD, MasterD),
          lb \in Optional(Tables(TableKeysB, LocalB)),
          ld \in Optional(Tables(TableKeysD, LocalD)) :
          catalog = Cache_new(mb, md, lb, ld)
    /\ last = NoLookup
    /\ status = "running"
    /\ overflow_checks = FALSE
    /\ data = BitInput(<<>>)
    /\ fields = <<>>
    /\ nread = 0
    /\ descriptors = <<>>
    /\ state = <<>>
    /\ stack = <<>>
    /\ record = <<>>
    /\ visited = <<>>
    /\ counts = <<>>
    /\ compiled = <<>>
    /\ steps = 0
    /\ IdleElsewhere

\* cache.get_b(des)
LookupB ==
    /\ \E fxy \in TableKeysB :
          last' = [op |-> "get_b", key |-> fxy, res |-> Cache_get_b(catalog, fxy)]
    /\ UNCHANGED <<overflow_checks, descriptors, data, state, stack, record, status,
                   visited, counts, compiled, steps, fields, nread, catalog>>
    /\ UNCHANGED Elsewhere

\* cache.get_d(des)
LookupD ==
    /\ \E fxy \in TableKeysD :
          last' = [op |-> "get_d", key |-> fxy, res |-> Cache_get_d(catalog, fxy)]
    /\ UNCHANGED <<overflow_checks, descriptors, data, state, stack, record, status,
                   visited, counts, compiled, steps, fields, nread, catalog>>
    /\ UNCHANGED Elsewhere

NextTables == LookupB \/ LookupD

SpecTables == InitTables /\ [][NextTables]_vars

KeysOf(table) == {table.entries[i].fxy : i \in 1..Len(table.entries)}

EntryOf(table, fxy) ==
    table.entries[CHOOSE i \in 1..Len(table.entries) : table.entries[i].fxy = fxy]

\* the entry the lookup precedence gives: local first, then master
Precedence(local, master, fxy) ==
    IF local # None /\ fxy \in KeysOf(Unwrap(local))
    THEN Some(EntryOf(Unwrap(local), fxy))
    ELSE IF fxy \in KeysOf(master) THEN Some(EntryOf(master, fxy))
    ELSE None

\* C11: a Table B or Table D lookup of the decoder answers the local table's
\* entry when the local table contains the key, otherwise the master table's
\* entry when the master contains it, otherwise none; the entry it answers
\* always has the FXY of the descriptor.
C11_LocalThenMaster ==
    /\ last.op = "get_b" =>
          last.res = Precedence(catalog.local_b, catalog.master_b, last.key)
    /\ last.op = "get_d" =>
          last.res = Precedence(catalog.local_d, catalog.master_d, last.key)
    /\ (last.op \in {"get_b", "get_d"} /\ IsSome(last.res)) =>
          Unwrap(last.res).fxy = last.key

\* the local table's hash slot for the key holds the entry of another key, the
\* master table contains the key, and the lookup answered the master's entry
C11_Witness ==
    /\ last.op = "get_b"
    /\ catalog.local_b # None
    /\ last.key \notin KeysOf(Unwrap(catalog.local_b))
    /\ IsSome(lookup(Unwrap(catalog.local_b), last.key))
    /\ last.key \in KeysOf(catalog.master_b)
    /\ last.res = Some(MasterB(last.key))

(***************************************************************************)
(* Message sections (structs/versions): nom parsers over a byte slice      *)
(***************************************************************************)
\* IResult<&[u8], T>; `value` holds the fields of a section
NomOk(rest, value) == [status |-> "ok", rest |-> rest, value |-> value]
NomErr(input) == [status |-> "err", rest |-> input, value |-> <<>>]
NomPanic(input) == [status |-> "panic", rest |-> input, value |-> <<>>]

\* tag(t)(input)
tag(t, input) ==
    IF Len(input) >= Len(t) /\ SubSeq(input, 1, Len(t)) = t
    THEN NomOk(DropBytes(input, Len(t)), t)
    ELSE NomErr(input)

\* take(count)(input)
take(count, input) ==
    IF Len(input) >= count
    THEN NomOk(DropBytes(input, count), SubSeq(input, 1, count))
    ELSE NomErr(input)

\* the big-endian number of the bytes (be_u8, be_u16, be_u24)
RECURSIVE BeValue(_)
BeValue(bytes) ==
    IF bytes = <<>> THEN 0
    ELSE 256 * BeValue(SubSeq(bytes, 1, Len(bytes) - 1)) + bytes[Len(bytes)]

\* take(length - header)(input) with length: u32. The subtraction overflows
\* when length < header: with overflow checks it panics; without, it wraps to a
\* count larger than any slice and take fails.
take_rest(length, header, input) ==
    IF length >= header THEN take(length - header, input)
    ELSE IF overflow_checks THEN NomPanic(input)
    ELSE NomErr(input)

\* "BUFR" and "7777"
BUFR_PATTERN == <<66, 85, 70, 82>>
END_PATTERN == <<55, 55, 55, 55>>

parse_section0(input) ==
    IF tag(BUFR_PATTERN, input).status # "ok" \/ Len(input) < 8 THEN NomErr(input)
    ELSE NomOk(DropBytes(input, 8),
               [total_length |-> BeValue(SubSeq(input, 5, 7)), version |-> input[8]])

\* the length of the fixed part of section 1, and the octet of section 1 whose
\* first bit is the optional-section flag
FIXED_LEN(edition) == IF edition = 4 THEN 22 ELSE 17
FlagOctet(edition) == IF edition = 4 THEN 10 ELSE 8

\* parse_section1 of v4.rs and of v2.rs: the length, the fixed octets one by
\* one, then the local-use bytes
parse_section1(edition, input) ==
    IF Len(input) < 3 THEN NomErr(input)
    ELSE IF BeValue(SubSeq(input, 1, 3)) < FIXED_LEN(edition)
    THEN NomErr(DropBytes(input, 3))
    ELSE IF Len(input) < BeValue(SubSeq(input, 1, 3)) THEN NomErr(input)
    ELSE NomOk(DropBytes(input, BeValue(SubSeq(input, 1, 3))),
               [length |-> BeValue(SubSeq(input, 1, 3)),
                optional_section_present |-> input[FlagOctet(edition)] >= 128])

\* parse_section2 and parse_section4: length, one octet skipped, the data
parse_section2(input) ==
    IF Len(input) < 4 THEN NomErr(input)
    ELSE take_rest(BeValue(SubSeq(input, 1, 3)), 4, DropBytes(input, 4))
parse_section4(input) ==
    IF Len(input) < 4 THEN NomErr(input)
    ELSE take_rest(BeValue(SubSeq(input, 1, 3)), 4, DropBytes(input, 4))

\* parse_section3: length, one octet skipped, subsets, flags, the descriptors
parse_section3(input) ==
    IF Len(input) < 7 THEN NomErr(input)
    ELSE take_rest(BeValue(SubSeq(input, 1, 3)), 7, DropBytes(input, 7))

parse_section5(input) == tag(END_PATTERN, input)

\* `?` on a section: the sections parsed so far, then section `name`
Sections(input) == [status |-> "ok", rest |-> input, sections |-> <<>>]
and_then(so_far, name, section) ==
    IF so_far.status # "ok" THEN so_far
    ELSE IF section.status # "ok"
    THEN [status |-> section.status, rest |-> section.rest, sections |-> so_far.sections]
    ELSE [status |-> "ok", rest |-> section.rest,
          sections |-> Append(so_far.sections, [section |-> name, value |-> section.value])]

with_section0(input) == and_then(Sections(input), 0, parse_section0(input))
with_section1(edition, so_far) ==
    and_then(so_far, 1, parse_section1(edition, so_far.rest))
with_section2(so_far) ==
    IF so_far.status = "ok" /\ so_far.sections[2].value.optional_section_present
    THEN and_then(so_far, 2, parse_section2(so_far.rest))
    ELSE so_far
with_section3(so_far) == and_then(so_far, 3, parse_section3(so_far.rest))
with_section4(so_far) == and_then(so_far, 4, parse_section4(so_far.rest))
with_section5(so_far) == and_then(so_far, 5, parse_section5(so_far.rest))

\* BUFRMessageV4::parse (edition = 4) and BUFRMessageV2::parse (edition = 2)
MessageVersion_parse(edition, input) ==
    with_section5(with_section4(with_section3(with_section2(
        with_section1(edition, with_section0(input))))))

\* Result<BUFRMessage>
ParseOk(version, sections) ==
    [status |-> "ok", error |-> "", version |-> version, sections |-> sections]
ParseErr(st, error, version) ==
    [status |-> st, error |-> error, version |-> version, sections |-> <<>>]

\* the message of a version once its parse has answered `parsed`
of_version(version, parsed) ==
    IF parsed.status = "ok" THEN ParseOk(version, parsed.sections)
    ELSE ParseErr(parsed.status, "Nom", version)

\* a parser that takes every edition but 2 for edition 4
match_version_lenient(input, section0) ==
    IF section0.status # "ok" THEN ParseErr("err", "Nom", -1)
    ELSE IF section0.value.version = 2
    THEN of_version(2, MessageVersion_parse(2, input))
    ELSE of_version(4, MessageVersion_parse(4, input))

\* BUFRMessage::parse once parse_section0 has answered `section0`
match_version(input, section0) ==
    IF section0.status # "ok" THEN ParseErr("err", "Nom", -1)
    ELSE IF section0.value.version \in {2, 4}
    THEN of_version(section0.value.version,
                    MessageVersion_parse(section0.value.version, input))
    ELSE ParseErr("err", "UnsupportedVersion", section0.value.version)

\* BUFRMessage::parse
BUFRMessage_parse(input) == match_version(input, parse_section0(input))

(***************************************************************************)
(* parser.rs: the messages of a byte stream                                *)
(***************************************************************************)
BUFFER_SIZE == 8192

\* the for loop of find_bufr_offsets over search_buffer from index i: the
\* offsets (base + i) at which the pattern starts
RECURSIVE search(_, _, _)
search(search_buffer, i, base) ==
    IF i + Len(BUFR_PATTERN) > Len(search_buffer) THEN <<>>
    ELSE (IF SubSeq(search_buffer, i + 1, i + Len(BUFR_PATTERN)) = BUFR_PATTERN
          THEN <<base + i>> ELSE <<>>)
         \o search(search_buffer, i + 1, base)

\* the bytes find_bufr_offsets keeps of a read for the next search
next_overlap(buffer) ==
    IF Len(buffer) >= Len(BUFR_PATTERN) - 1
    THEN SubSeq(buffer, Len(buffer) - (Len(BUFR_PATTERN) - 1) + 1, Len(buffer))
    ELSE buffer

\* the read loop of find_bufr_offsets over a reader that fills the buffer
RECURSIVE read_loop(_, _, _, _)
read_loop(rest, file_offset, overlap, found) ==
    LET bytes_read == IF Len(rest) < BUFFER_SIZE THEN Len(rest) ELSE BUFFER_SIZE
        buffer == SubSeq(rest, 1, bytes_read)
    IN  IF bytes_read = 0 THEN found
        ELSE read_loop(DropBytes(rest, bytes_read), file_offset + bytes_read,
                       next_overlap(buffer),
                       found \o search(overlap \o buffer, 0, file_offset - Len(overlap)))

find_bufr_offsets(reader) == read_loop(reader, 0, <<>>, <<>>)

\* read_message_at_offset: io::Result<Vec<u8>>
read_message_at_offset(reader, offset) ==
    IF Len(reader) - offset < 8 THEN [status |-> "err", bytes |-> <<>>]
    ELSE IF Len(reader) - offset < BeValue(SubSeq(reader, offset + 5, offset + 7))
    THEN [status |-> "err", bytes |-> <<>>]
    ELSE [status |-> "ok",
          bytes |-> SubSeq(reader, offset + 1,
                           offset + BeValue(SubSeq(reader, offset + 5, offset + 7)))]

\* the byte streams parsed: up to MaxMessages segments, each a message built
\* from section lengths, or bytes that are no message
MaxMessages == 2

U24(n) == <<n \div 65536, (n \div 256) % 256, n % 256>>

\* a section of `actual` bytes that declares `declared`
SectionBytes(declared, actual) == U24(declared) \o [i \in 1..(actual - 3) |-> 0]

Section1Bytes(edition, declared, optional) ==
    U24(declared) \o [i \in 1..(declared - 3) |->
                        IF i + 3 = FlagOctet(edition) /\ optional THEN 128 ELSE 0]

MessageBody(m) ==
    Section1Bytes(m.edition, m.l1, m.optional)
        \o (IF m.optional THEN SectionBytes(m.l2, m.l2) ELSE <<>>)
        \o SectionBytes(m.l3, m.l3) \o SectionBytes(m.l4, m.a4) \o m.marker

MessageBytes(m) ==
    BUFR_PATTERN \o U24(8 + Len(MessageBody(m)) + m.extra) \o <<m.edition>>
        \o MessageBody(m)

Edition4 == [edition |-> 4, l1 |-> 22, optional |-> FALSE, l2 |-> 4, l3 |-> 9, l4 |-> 6,
             a4 |-> 6, marker |-> END_PATTERN, extra |-> 0]
Edition2 == [Edition4 EXCEPT !.edition = 2, !.l1 = 17]

Segments ==
    {MessageBytes(m) : m \in
        {Edition4, Edition2,
         [Edition4 EXCEPT !.optional = TRUE, !.l2 = 6],
         [Edition2 EXCEPT !.optional = TRUE, !.l1 = 18],
         [Edition4 EXCEPT !.edition = 3],
         [Edition2 EXCEPT !.edition = 0],
         [Edition4 EXCEPT !.marker = <<55, 55, 55, 54>>],
         [Edition2 EXCEPT !.marker = <<>>],
         [Edition4 EXCEPT !.l4 = 3, !.a4 = 3],
         [Edition4 EXCEPT !.l4 = 3, !.a4 = 3, !.marker = <<55, 55, 55, 54>>],
         [Edition2 EXCEPT !.l3 = 6, !.marker = <<>>],
         [Edition4 EXCEPT !.optional = TRUE, !.l2 = 3, !.marker = <<54>>],
         [Edition4 EXCEPT !.l4 = 10],
         [Edition4 EXCEPT !.l1 = 21],
         [Edition2 EXCEPT !.extra = 5]}}
    \cup {<<0, 66, 85>>, BUFR_PATTERN \o <<0, 0>>}

RECURSIVE Concat(_)
Concat(segments) ==
    IF segments = <<>> THEN <<>> ELSE Head(segments) \o Concat(Tail(segments))

Streams == {Concat(segments) : segments \in SeqsUpTo(Segments, MaxMessages)}

NoMessage == [op |-> "none", offset |-> 0, read |-> "", input |-> <<>>,
              result |-> ParseErr("", "", -1)]

\* parse has opened the file and calls parse_inner
InitParser ==
    /\ overflow_checks \in BOOLEAN
    /\ stream \in Streams
    /\ offsets = None
    /\ file_block = <<>>
    /\ status = "running"
    /\ last = NoMessage
    /\ data = BitInput(<<>>)
    /\ IdleDecoder
    /\ fields = <<>>
    /\ nread = 0
    /\ decoded = <<>>
    /\ TABLES_BASE_PATH = None
    /\ env = <<>>
    /\ threads = <<>>
    /\ disk = {}

NotParser == <<overflow_checks, descriptors, data, state, stack, record, visited, counts,
               compiled, steps, fields, nread, catalog, decoded, TABLES_BASE_PATH, env,
               threads, disk>>

\* parse_inner: find_bufr_offsets
FindOffsets ==
    /\ status = "running"
    /\ offsets = None
    /\ offsets' = Some(find_bufr_offsets(stream))
    /\ UNCHANGED <<stream, file_block, status, last>>
    /\ UNCHANGED NotParser

\* the body of parse_inner's loop once read_message_at_offset has answered
\* `message_data` and BUFRMessage::parse `result`: a message is pushed; an error
\* of either is printed to stderr and the loop goes on
Visit(offset, message_data, result) ==
    /\ last' = [op |-> "message", offset |-> offset, read |-> message_data.status,
                input |-> message_data.bytes, result |-> result]
    /\ file_block' = IF message_data.status = "ok" /\ result.status = "ok"
                     THEN Append(file_block, [message |-> result, offset |-> offset])
                     ELSE file_block
    /\ status' = IF message_data.status = "ok" /\ result.status = "panic"
                 THEN "panic" ELSE "running"
    /\ offsets' = Some(Tail(Unwrap(offsets)))

\* parse_inner: one iteration of the loop over the offsets
ReadMessage ==
    /\ status = "running"
    /\ offsets # None
    /\ Unwrap(offsets) # <<>>
    /\ Visit(Head(Unwrap(offsets)),
             read_message_at_offset(stream, Head(Unwrap(offsets))),
             BUFRMessage_parse(read_message_at_offset(stream,
                                                      Head(Unwrap(offsets))).bytes))
    /\ UNCHANGED stream
    /\ UNCHANGED NotParser

\* parse_inner: Ok(file_block)
ReturnFile ==
    /\ status = "running"
    /\ offsets = Some(<<>>)
    /\ status' = "ok"
    /\ UNCHANGED <<stream, offsets, file_block, last>>
    /\ UNCHANGED NotParser

NextParser == FindOffsets \/ ReadMessage \/ ReturnFile

SpecParser == InitParser /\ [][NextParser]_vars

\* C13: when parse returns the file, every "BUFR" marker of the stream is a
\* message of the file (parse returning an error is the other way a marker may
\* end); a marker whose message is truncated or malformed is not dropped.
C13_NoMarkerDropped ==
    status = "ok" =>
        \A i \in 1..Len(find_bufr_offsets(stream)) :
            \E j \in 1..Len(file_block) :
                file_block[j].offset = find_bufr_offsets(stream)[i]

\* the u24 at byte offset p (from 0) of input; -1 when it is not there
LengthAt(input, p) ==
    IF p + 3 <= Len(input) THEN BeValue(SubSeq(input, p + 1, p + 3)) ELSE -1

\* the slice is laid out as a message: section 0 of edition 2 or 4, then
\* sections 1, (2 when flagged), 3 and 4, each starting where the one before
\* ends by its declared length and each within the slice, then "7777"
WellFormed(input) ==
    /\ Len(input) >= 8
    /\ SubSeq(input, 1, 4) = BUFR_PATTERN
    /\ input[8] \in {2, 4}
    /\ LET l1 == LengthAt(input, 8)
           p2 == 8 + l1
           l2 == IF input[8 + FlagOctet(input[8])] >= 128 THEN LengthAt(input, p2) ELSE 0
           p3 == p2 + l2
           l3 == LengthAt(input, p3)
           p4 == p3 + l3
           l4 == LengthAt(input, p4)
           p5 == p4 + l4
       IN  /\ l1 >= FlagOctet(input[8]) /\ p2 <= Len(input)
           /\ l2 >= 0 /\ p3 <= Len(input)
           /\ l3 >= 0 /\ p4 <= Len(input)
           /\ l4 >= 0 /\ p5 + 4 <= Len(input)
           /\ SubSeq(input, p5 + 1, p5 + 4) = END_PATTERN

\* C14: the parse of a message slice succeeds only if the slice is laid out
\* as sections 0, 1, (2), 3, 4 with lengths that fit, followed by "7777"; for
\* every other slice it returns an error.
C14_ParseOnlyWellFormed ==
    (last.op = "message" /\ last.read = "ok") =>
        /\ last.result.status = "ok" => WellFormed(last.input)
        /\ ~WellFormed(last.input) => last.result.status = "err"

\* C20: the parse of a message whose edition octet is neither 2 nor 4 fails with
\* UnsupportedVersion carrying the edition, and no message is added for it.
C20_UnsupportedVersion ==
    (last.op = "message" /\ last.read = "ok" /\ Len(last.input) >= 8
        /\ last.input[8] \notin {2, 4}) =>
        /\ last.result = ParseErr("err", "UnsupportedVersion", last.input[8])
        /\ \A j \in 1..Len(file_block) : file_block[j].offset # last.offset

\* a message of edition 3 met after a message that parsed
C20_Witness ==
    /\ last.op = "message"
    /\ last.read = "ok"
    /\ Len(last.input) >= 8
    /\ last.input[8] = 3
    /\ last.offset > 0
    /\ Len(file_block) = 1

(***************************************************************************)
(* Master table fallback (block.rs, tables.rs)                             *)
(***************************************************************************)
MaxVersion == 3

TableTypes == {"B", "D"}

MasterTable_new(version) == [version |-> version]

\* master/BUFR_TableB_{version}.bufrtbl, master/BUFR_TableD_{version}.bufrtbl
file_path(table, table_type) == <<"master", table_type, table.version>>

\* TableLoader.load_table(table).ok(): the catalog stored in the file when
\* the file is there and deserializes; `files` are the files that do
load_table(files, table_type, table) ==
    IF file_path(table, table_type) \in files
    THEN Some([path |-> file_path(table, table_type)])
    ELSE None

\* (0..=table_version).rev().find_map(..), from `version` downwards
RECURSIVE find_map(_, _, _)
find_map(files, table_type, version) ==
    IF load_table(files, table_type, MasterTable_new(version)) # None
    THEN load_table(files, table_type, MasterTable_new(version))
    ELSE IF version = 0 THEN None
         ELSE find_map(files, table_type, version - 1)

LoadOk(table) == [status |-> "ok", table |-> table, error |-> ""]
LoadErr(error) == [status |-> "err", table |-> None, error |-> error]

ok_or(found, error) == IF found # None THEN LoadOk(Unwrap(found)) ELSE LoadErr(error)

load_only_requested(files, table_type, table_version) ==
    ok_or(load_table(files, table_type, MasterTable_new(table_version)),
          "TableNotFoundEmpty")

load_first_validable_table(files, table_type, table_version) ==
    ok_or(find_map(files, table_type, table_version), "TableNotFoundEmpty")

MasterFiles == {file_path(MasterTable_new(v), t) : v \in 0..MaxVersion, t \in TableTypes}

NoLoad == [op |-> "none", table_type |-> "", table_version |-> 0, res |-> LoadErr("")]

InitLoader ==
    /\ disk \in SUBSET MasterFiles
    /\ last = NoLoad
    /\ status = "running"
    /\ overflow_checks = FALSE
    /\ data = BitInput(<<>>)
    /\ fields = <<>>
    /\ nread = 0
    /\ IdleDecoder
    /\ stream = <<>>
    /\ offsets = <<>>
    /\ file_block = <<>>
    /\ decoded = <<>>
    /\ TABLES_BASE_PATH = None
    /\ env = <<>>
    /\ threads = <<>>

\* message.load_first_validable_table::<E>(table_version)
LoadFirst ==
    /\ \E table_type \in TableTypes, table_version \in 0..MaxVersion :
          last' = [op |-> "load", table_type |-> table_type,
                   table_version |-> table_version,
                   res |-> load_first_validable_table(disk, table_type, table_version)]
    /\ UNCHANGED <<overflow_checks, descriptors, data, state, stack, record, status,
                   visited, counts, compiled, steps, fields, nread, catalog>>
    /\ UNCHANGED Elsewhere

NextLoader == LoadFirst

SpecLoader == InitLoader /\ [][NextLoader]_vars

\* the versions up to v whose master table of the type loads
Loadable(table_type, v) ==
    {w \in 0..v : file_path(MasterTable_new(w), table_type) \in disk}

Highest(S) == CHOOSE w \in S : \A u \in S : u <= w

\* C15: loading the master table for version v returns the catalog of the
\* highest version v' <= v that loads (v, v-1, ..., 0 tried in that order),
\* and fails with the table-not-found error exactly when no version in 0..v
\* loads.
C15_FallbackToHighest ==
    last.op = "load" =>
        IF Loadable(last.table_type, last.table_version) = {}
        THEN last.res = LoadErr("TableNotFoundEmpty")
        ELSE last.res = LoadOk([path |-> <<"master", last.table_type,
                                 Highest(Loadable(last.table_type, last.table_version))>>])

\* version 2 is asked for, it is absent, versions 1 and 0 are there: the
\* version 1 catalog is produced
C15_Witness ==
    /\ last.op = "load"
    /\ last.table_version = 2
    /\ Loadable(last.table_type, 2) = {0, 1}
    /\ last.res.status = "ok"
    /\ last.res.table.path[3] = 1

(***************************************************************************)
(* Decoder::decode called again and again on one Decoder                   *)
(***************************************************************************)
MaxDecodes == 3

\* the messages handed to decode: descriptors (section 3) and data (section 4)
Message(descs, payload) == [descriptors |-> descs, payload |-> payload]

\* a width operator that stays in effect to the end, a one-shot width left
\* unconsumed, plain elements, an element no table has, a delayed replication,
\* and a compiled array
ReuseMessages ==
    {Message(<<FXY(2, 1, 129), FXY(0, 1, 1)>>, <<3, 2, 8, 48>>),
     Message(<<FXY(2, 6, 4)>>, <<3, 2, 8, 48>>),
     Message(<<FXY(0, 1, 1), FXY(0, 2, 1)>>, <<3, 2, 8, 48>>),
     Message(<<FXY(0, 1, 1), FXY(0, 1, 2)>>, <<255, 255>>),
     Message(<<FXY(1, 1, 0), FXY(0, 31, 1), FXY(0, 1, 1)>>, <<3, 2, 8, 48>>),
     Message(<<FXY(1, 1, 16), FXY(0, 1, 1)>>, <<3, 2>>)}

\* the locals a call of decode leaves behind when it returns
Locals(st, stk, inp, rec) == [state |-> st, stack |-> stk, data |-> inp, record |-> rec]

\* a decode whose operator state outlives the call
decode_keeps_state(message, previous) ==
    Locals(previous.state, <<Slice(message.descriptors, 0, <<>>)>>,
           BitInput(message.payload), <<>>)

\* the locals of decode when its loop starts; `previous` are those of the call before
decode_locals(message, previous) ==
    Locals(State_new, <<Slice(message.descriptors, 0, <<>>)>>,
           BitInput(message.payload), <<>>)

\* ghost: a call of decode and what it returned
Call(message, st, rec) == [message |-> message, status |-> st, record |-> rec]

\* the Decoder has been built and has decoded nothing yet
InitReuse ==
    /\ overflow_checks \in BOOLEAN
    /\ descriptors = <<>>
    /\ data = BitInput(<<>>)
    /\ state = State_new
    /\ stack = <<>>
    /\ record = <<>>
    /\ status = "idle"
    /\ visited = <<>>
    /\ counts = <<>>
    /\ compiled = None
    /\ steps = 0
    /\ last = LastStep("new", -1, FALSE)
    /\ IdleHarness
    /\ IdleElsewhere

\* decode starts with locals `cx`; the call before it, if any, has returned
Start(message, cx) ==
    /\ descriptors' = message.descriptors
    /\ data' = cx.data
    /\ state' = cx.state
    /\ stack' = cx.stack
    /\ record' = cx.record
    /\ status' = "running"
    /\ visited' = <<>>
    /\ counts' = <<>>
    /\ compiled' = None
    /\ steps' = 0
    /\ last' = LastStep("decode", -1, FALSE)
    /\ decoded' = (IF decoded = <<>> THEN <<>>
                   ELSE [decoded EXCEPT ![Len(decoded)] =
                            Call(@.message, status, record)])
                    \o <<Call(message, "running", <<>>)>>

\* decoder.decode(&message)
Decode ==
    /\ status \in {"idle", "ok", "err"}
    /\ Len(decoded) < MaxDecodes
    /\ \E message \in ReuseMessages :
          Start(message, decode_locals(message, Locals(state, stack, data, record)))
    /\ UNCHANGED <<overflow_checks, fields, nread, catalog>>
    /\ UNCHANGED <<stream, offsets, file_block, TABLES_BASE_PATH, env, threads, disk>>

NextReuse == Decode \/ StepSlice \/ StepRepeat \/ StepCompiledArray \/ Finish

SpecReuse == InitReuse /\ [][NextReuse]_vars

\* C16: decode is a function of the message and the catalogs: a call that
\* returns, returns what every earlier call of the same Decoder returned for
\* the same message, whatever was decoded in between.
C16_DecodeRepeatable ==
    (status \in {"ok", "err"} /\ decoded # <<>>) =>
        \A i \in 1..(Len(decoded) - 1) :
            decoded[i].message = decoded[Len(decoded)].message =>
                /\ decoded[i].status = status
                /\ status = "ok" => decoded[i].record = record

\* a message decoded for the second time, after a message that ended with a
\* width operator in effect, with values in the record
C16_Witness ==
    /\ status = "ok"
    /\ Len(decoded) = 3
    /\ decoded[1].message = decoded[3].message
    /\ decoded[2].message.descriptors = <<FXY(2, 1, 129), FXY(0, 1, 1)>>
    /\ decoded[3].message.descriptors = <<FXY(0, 1, 1), FXY(0, 2, 1)>>
    /\ record # <<>>

(***************************************************************************)
(* The tables' base path (table_path.rs)                                   *)
(***************************************************************************)
MaxCalls == 4

\* the test harness runs the tests of one binary on threads of one process
Threads == {1, 2}

\* a PathBuf: whether it has a root, and its components
PathBuf_from(root, components) == [root |-> root, components |-> components]

\* Path::join: an absolute `path` replaces the base
join(base, path) ==
    IF path.root THEN path
    ELSE PathBuf_from(base.root, base.components \o path.components)

\* "/custom/tables/path" and "/base"
BasePaths ==
    {PathBuf_from(TRUE, <<"custom", "tables", "path">>), PathBuf_from(TRUE, <<"base">>)}

\* "master/BUFR_TableB_0.bufrtbl"
RelativePaths == {PathBuf_from(FALSE, <<"master", "BUFR_TableB_0.bufrtbl">>)}

\* the values of RBUFR_TABLES_PATH: unset, or "/env"
Environments == {None, Some(PathBuf_from(TRUE, <<"env">>))}

\* OnceLock::set: the cell takes the value only while it is empty
OnceLock_set(cell, value) == IF cell = None THEN Some(value) ELSE cell

\* a thread outside the functions, and inside get_tables_base_path before
\* TABLES_BASE_PATH.get() ("lock") or before std::env::var ("env"); `allowed`
\* (ghost) are the paths set by the last set_tables_base_path that had returned
\* when the call began and by those that returned since
Thread(pc, op, relative, allowed) ==
    [pc |-> pc, op |-> op, relative |-> relative, allowed |-> allowed]

IdleThread == Thread("idle", "", PathBuf_from(FALSE, <<>>), {})

\* ghost: the call that returned last, and the path of the last
\* set_tables_base_path that has returned
Returned(op, relative, result, allowed, latest) ==
    [op |-> op, relative |-> relative, result |-> result, allowed |-> allowed,
     latest |-> latest]

InitPath ==
    /\ TABLES_BASE_PATH = None
    /\ env \in Environments
    /\ threads = [t \in Threads |-> IdleThread]
    /\ last = Returned("none", PathBuf_from(FALSE, <<>>), PathBuf_from(FALSE, <<>>), {}, None)
    /\ steps = 0
    /\ status = "running"
    /\ overflow_checks = FALSE
    /\ data = BitInput(<<>>)
    /\ fields = <<>>
    /\ nread = 0
    /\ descriptors = <<>>
    /\ state = <<>>
    /\ stack = <<>>
    /\ record = <<>>
    /\ visited = <<>>
    /\ counts = <<>>
    /\ compiled = <<>>
    /\ catalog = <<>>
    /\ stream = <<>>
    /\ offsets = <<>>
    /\ file_block = <<>>
    /\ decoded = <<>>
    /\ disk = {}

NotPath == <<overflow_checks, descriptors, data, state, stack, record, status, visited,
             counts, compiled, fields, nread, catalog, stream, offsets, file_block,
             decoded, disk>>

\* set_tables_base_path(path), on thread t
SetPath ==
    /\ steps < MaxCalls
    /\ \E t \in Threads, path \in BasePaths :
          /\ threads[t].pc = "idle"
          /\ TABLES_BASE_PATH' = OnceLock_set(TABLES_BASE_PATH, path)
          /\ threads' = [u \in Threads |->
                            IF threads[u].pc # "idle" /\ threads[u].allowed # {}
                            THEN [threads[u] EXCEPT !.allowed = @ \cup {path}]
                            ELSE threads[u]]
          /\ last' = Returned("set", path, path, {}, Some(path))
    /\ steps' = steps + 1
    /\ UNCHANGED env
    /\ UNCHANGED NotPath

\* thread t calls get_tables_base_path() or get_table_path(relative)
CallGet ==
    /\ steps < MaxCalls
    /\ \E t \in Threads :
          /\ threads[t].pc = "idle"
          /\ \/ threads' = [threads EXCEPT ![t] =
                    Thread("lock", "get_tables_base_path", PathBuf_from(FALSE, <<>>),
                           IF last.latest = None THEN {} ELSE {Unwrap(last.latest)})]
             \/ \E relative \in RelativePaths :
                    threads' = [threads EXCEPT ![t] =
                        Thread("lock", "get_table_path", relative,
                               IF last.latest = None THEN {} ELSE {Unwrap(last.latest)})]
    /\ steps' = steps + 1
    /\ UNCHANGED <<TABLES_BASE_PATH, env, last>>
    /\ UNCHANGED NotPath

\* the call of thread t returns `base` from get_tables_base_path; get_table_path
\* joins the relative path to it
Return(t, base) ==
    /\ last' = Returned(threads[t].op, threads[t].relative,
                        IF threads[t].op = "get_table_path"
                        THEN join(base, threads[t].relative) ELSE base,
                        threads[t].allowed, last.latest)
    /\ threads' = [threads EXCEPT ![t] = IdleThread]

\* get_tables_base_path: if let Some(path) = TABLES_BASE_PATH.get()
CheckLock ==
    /\ \E t \in Threads :
          /\ threads[t].pc = "lock"
          /\ IF TABLES_BASE_PATH # None
             THEN Return(t, Unwrap(TABLES_BASE_PATH))
             ELSE /\ threads' = [threads EXCEPT ![t].pc = "env"]
                  /\ UNCHANGED last
    /\ UNCHANGED <<TABLES_BASE_PATH, env, steps>>
    /\ UNCHANGED NotPath

\* get_tables_base_path: RBUFR_TABLES_PATH, else "tables"
ReadEnv ==
    /\ \E t \in Threads :
          /\ threads[t].pc = "env"
          /\ Return(t, IF env # None THEN Unwrap(env)
                       ELSE PathBuf_from(FALSE, <<"tables">>))
    /\ UNCHANGED <<TABLES_BASE_PATH, env, steps>>
    /\ UNCHANGED NotPath

NextPath == SetPath \/ CallGet \/ CheckLock \/ ReadEnv

SpecPath == InitPath /\ [][NextPath]_vars

\* C17: a get_tables_base_path() that begins after a set_tables_base_path(p)
\* has returned gives p, and get_table_path(r) gives p joined with r, also
\* when the path was set before to something else (p is the path of the last
\* set that had returned when the call began, or of a set returning during it).
C17_GetReturnsLastSet ==
    (last.op \in {"get_tables_base_path", "get_table_path"} /\ last.allowed # {}) =>
        \E p \in last.allowed :
            last.result = IF last.op = "get_table_path" THEN join(p, last.relative) ELSE p

(***************************************************************************)
(* FXY keys as strings (gen/src/lib.rs, gen/src/tables.rs)                 *)
(***************************************************************************)
\* a string is the sequence of its characters
DigitChars == <<"0", "1", "2", "3", "4", "5", "6", "7", "8", "9">>

\* the decimal digits of n >= 0, most significant first
RECURSIVE Decimal(_)
Decimal(n) == IF n < 10 THEN <<DigitChars[n + 1]>>
              ELSE Decimal(n \div 10) \o <<DigitChars[(n % 10) + 1]>>

\* {:0width}: zeros in front up to `width` characters, never fewer digits
RECURSIVE ZeroPad(_, _)
ZeroPad(text, width) == IF Len(text) >= width THEN text ELSE ZeroPad(<<"0">> \o text, width)

\* format!("{:02}{:02}{:03}", fxy.f, fxy.x, fxy.y)
format_fxy(fxy) ==
    ZeroPad(Decimal(fxy.f), 2) \o ZeroPad(Decimal(fxy.x), 2) \o ZeroPad(Decimal(fxy.y), 3)

DigitOf(c) == CHOOSE d \in 0..9 : DigitChars[d + 1] = c

IsDigit(c) == \E d \in 0..9 : DigitChars[d + 1] = c

RECURSIVE DigitsValue(_, _)
DigitsValue(text, acc) ==
    IF text = <<>> THEN acc ELSE DigitsValue(Tail(text), 10 * acc + DigitOf(Head(text)))

\* str::parse::<i32>: an optional sign and at least one digit, nothing else
parse_i32(text) ==
    LET digits == IF text # <<>> /\ Head(text) \in {"+", "-"} THEN Tail(text) ELSE text IN
    IF digits = <<>> \/ \E i \in 1..Len(digits) : ~IsDigit(digits[i]) THEN None
    ELSE IF Head(text) = "-" THEN Some(0 - DigitsValue(digits, 0))
    ELSE Some(DigitsValue(digits, 0))

FromOk(fxy) == [status |-> "ok", fxy |-> fxy, error |-> ""]
FromErr(error) == [status |-> "err", fxy |-> FXY(0, 0, 0), error |-> error]

\* FXY::from_str
FXY_from_str(fxy_str) ==
    IF Len(fxy_str) # 6 THEN FromErr("Invalid FXY string length")
    ELSE IF parse_i32(SubSeq(fxy_str, 1, 2)) = None THEN FromErr("Failed to parse F from FXY")
    ELSE IF parse_i32(SubSeq(fxy_str, 3, 4)) = None THEN FromErr("Failed to parse X from FXY")
    ELSE IF parse_i32(SubSeq(fxy_str, 5, 6)) = None THEN FromErr("Failed to parse Y from FXY")
    ELSE FromOk(FXY(Unwrap(parse_i32(SubSeq(fxy_str, 1, 2))),
                    Unwrap(parse_i32(SubSeq(fxy_str, 3, 4))),
                    Unwrap(parse_i32(SubSeq(fxy_str, 5, 6)))))

\* the keys of the 16-bit descriptor space
AllFXY == {FXY(f, x, y) : f \in 0..3, x \in 0..63, y \in 0..255}

Written(op, fxy, text, res) == [op |-> op, fxy |-> fxy, text |-> text, res |-> res]

InitFXY ==
    /\ \E fxy \in AllFXY : last = Written("new", fxy, <<>>, FromErr(""))
    /\ status = "running"
    /\ overflow_checks = FALSE
    /\ data = BitInput(<<>>)
    /\ fields = <<>>
    /\ nread = 0
    /\ IdleDecoder
    /\ IdleElsewhere

\* the key is written in its string form
Format ==
    /\ last.op = "new"
    /\ last' = Written("format", last.fxy, format_fxy(last.fxy), last.res)
    /\ UNCHANGED <<overflow_checks, descriptors, data, state, stack, record, status,
                   visited, counts, compiled, steps, fields, nread, catalog>>
    /\ UNCHANGED Elsewhere

\* FXY::from_str(&text)
Parse ==
    /\ last.op = "format"
    /\ last' = Written("from_str", last.fxy, last.text, FXY_from_str(last.text))
    /\ UNCHANGED <<overflow_checks, descriptors, data, state, stack, record, status,
                   visited, counts, compiled, steps, fields, nread, catalog>>
    /\ UNCHANGED Elsewhere

NextFXY == Format \/ Parse

SpecFXY == InitFXY /\ [][NextFXY]_vars

\* C18: for every FXY with f in 0..3, x in 0..63, y in 0..255, the key's string
\* form parsed with FXY::from_str gives back the same (f, x, y).
C18_StringRoundTrip ==
    last.op = "from_str" => last.res = FromOk(last.fxy)

(***************************************************************************)
(* Catalog soundness                                                       *)
(***************************************************************************)
\* the slot of the catalog that holds the entry of `fxy`
SlotOf(fxy) == CHOOSE i \in 1..Len(catalog.entries) : catalog.entries[i].fxy = fxy

\* C19: a catalog built from entries with pairwise distinct keys answers, for
\* the key of each of its entries, exactly that entry, and the entry is
\* stored at the index the perfect hash gives the key.
C19_CatalogSoundness ==
    (last.op = "lookup" /\ \E i \in 1..Len(catalog.entries) :
                                catalog.entries[i].fxy = last.key) =>
        /\ last.res = Some(catalog.entries[SlotOf(last.key)])
        /\ Unwrap(last.res) = SourceEntry(last.key)
        /\ catalog.mphf[last.key] = Some(SlotOf(last.key) - 1)

\* a catalog of three entries whose hash order is not the order of the keys,
\* looked up with the smallest key, which the hash puts last
C19_Witness ==
    /\ last.op = "lookup"
    /\ last.key = FXY(0, 1, 1)
    /\ Len(catalog.entries) = 3
    /\ catalog.mphf[FXY(0, 1, 1)] = Some(2)
    /\ last.res = Some(SourceEntry(FXY(0, 1, 1)))

(***************************************************************************)
(* Elements exempt from the width and scale operators                      *)
(***************************************************************************)
\* C21: an element whose unit is a flag table or code table, or whose FXY is
\* (F = 0, X = 31), is read with its Table B width and evaluated with its
\* Table B scale in every operator state (2-01, 2-02, 2-06 or 2-07 in effect).
C21_ExemptUseBase ==
    (last.op = "element" /\ no_change(Unwrap(get_b(last.fxy)))) =>
        /\ last.width = Unwrap(get_b(last.fxy)).bufr_datawidth_bits
        /\ last.scale = Unwrap(get_b(last.fxy)).bufr_scale
        /\ last.res.status = "ok" =>
              BitsLeft(last.before) - BitsLeft(last.res.input)
                  = Unwrap(get_b(last.fxy)).bufr_datawidth_bits

(***************************************************************************)
(* Replications at the threshold of the array compiler                     *)
(***************************************************************************)
MaxBody == 3

\* the descriptors of a replication body: a numeric element, a code table, a
\* string, an element no table has, 2-02-Y, 2-07-Y (small and too wide),
\* 2-05-Y, 2-08-Y, an operator the decoder does not know, and a sequence
ArrayAlphabet ==
    {FXY(0, 1, 1), FXY(0, 2, 1), FXY(0, 1, 15), FXY(0, 1, 2),
     FXY(2, 2, 129), FXY(2, 7, 1), FXY(2, 7, 6), FXY(2, 5, 1), FXY(2, 8, 2),
     FXY(2, 4, 1), FXY(3, 1, 1)}

ArrayBodies == SeqsUpTo(ArrayAlphabet, MaxBody) \ {<<>>}

\* one below the threshold of try_compile_array_layout, and the threshold
ArrayCounts == {15, 16}

\* the programs: one replication 1-X-Y over the whole body
ArrayPrograms == {<<FXY(1, Len(body), y)>> \o body : body \in ArrayBodies, y \in ArrayCounts}

ArrayPayload == [i \in 1..44 |-> (i * 37) % 256]

InitArrays ==
    /\ overflow_checks \in BOOLEAN
    /\ descriptors \in ArrayPrograms
    /\ data = BitInput(ArrayPayload)
    /\ state = State_new
    /\ stack = <<Slice(descriptors, 0, <<>>)>>
    /\ record = <<>>
    /\ status = "running"
    /\ visited = <<>>
    /\ counts = <<>>
    /\ compiled = None
    /\ steps = 0
    /\ last = LastStep("decode", -1, FALSE)
    /\ IdleHarness
    /\ IdleElsewhere

SpecArrays == InitArrays /\ [][Next]_vars

\* the operator state in which descriptor i (from 1) of `body` is met when the
\* body is walked from state `st`: operators applied, one-shots cleared by elements
RECURSIVE StateBefore(_, _, _)
StateBefore(body, i, st) ==
    IF i <= 1 THEN st
    ELSE LET before == StateBefore(body, i - 1, st)
             des == body[i - 1]
         IN  IF des.f = 2 THEN deal_with_operator(before, des, BitInput(<<>>)).state
             ELSE IF des.f = 0 THEN clear_one_shot(before)
             ELSE before

\* the next loop iteration evaluates a numeric element of Table B with both
\* 2-07-Y and 2-02-Y in effect, and the decode goes on
ScalesElement ==
    /\ status = "running" /\ status' = "running"
    /\ stack # <<>>
    /\ Top(stack).t = "Slice"
    /\ Top(stack).idx < Len(Top(stack).descs)
    /\ Top(stack).descs[Top(stack).idx + 1].f = 0
    /\ IsSome(get_b(Top(stack).descs[Top(stack).idx + 1]))
    /\ Unwrap(get_b(Top(stack).descs[Top(stack).idx + 1])).bufr_unit # "CCITT IA5"
    /\ IsSome(state.temp_operator)
    /\ IsSome(state.common_scale)

\* C22: an element decoded while both a 2-07-Y one-shot and a 2-02 scale
\* override are in effect gets the scale base_scale + Y, the 2-02 contribution
\* discarded, one by one (first conjunct) and in the layout of a compiled
\* array (second conjunct).
C22_TempOperatorScale ==
    [][/\ (ScalesElement /\ record'[Len(record')].values.v.kind = "Number") =>
             record'[Len(record')].values.v.num.scale
                 = Unwrap(get_b(Top(stack).descs[Top(stack).idx + 1])).bufr_scale
                     + Unwrap(state.temp_operator)
       /\ (stack' # <<>> /\ Top(stack').t = "CompiledArray") =>
             \A i \in 1..Len(Top(stack').layout.fields) :
                LET field == Top(stack').layout.fields[i]
                    before == StateBefore(Top(stack').body, field.pos + 1, State_new)
                IN  (IsSome(before.temp_operator) /\ IsSome(before.common_scale)) =>
                        field.scale = Unwrap(get_b(field.fxy)).bufr_scale
                                         + Unwrap(before.temp_operator)]_vars

\* a replication body the array compiler is to take: repeat count >= 16, every
\* descriptor F = 0 or F = 2, no 2-05 and no 2-08, no element of unit
\* "CCITT IA5", and no 2-07 left pending after the last descriptor
Eligible(body, repeat_count) ==
    /\ repeat_count >= 16
    /\ \A i \in 1..Len(body) :
          /\ body[i].f \in {0, 2}
          /\ body[i].f = 2 => body[i].x \notin {5, 8}
          /\ (body[i].f = 0 /\ IsSome(get_b(body[i]))) =>
                Unwrap(get_b(body[i])).bufr_unit # "CCITT IA5"
    /\ StateBefore(body, Len(body) + 1, State_new).temp_operator = None

\* C23: for a replication the decoder pushes a CompiledArray frame if and only
\* if the body is eligible, and an interpreted Repeat frame in every other case.
C23_CompiledIffEligible ==
    (last.op = "parse_slice" /\ last.f = 1) =>
        /\ status = "running"
        /\ stack # <<>>
        /\ Top(stack).t = IF Eligible(Tail(descriptors), descriptors[1].y)
                          THEN "CompiledArray" ELSE "Repeat"

(***************************************************************************)
(* Replications run their body                                             *)
(***************************************************************************)
\* p is a proper prefix of q
Under(p, q) == Len(q) > Len(p) /\ SubSeq(q, 1, Len(p)) = p

\* the descriptors processed inside the replication at path p, in order
RECURSIVE ProcessedUnder(_, _)
ProcessedUnder(p, vis) ==
    IF vis = <<>> THEN <<>>
    ELSE IF Under(p, Head(vis)) THEN <<Head(vis)>> \o ProcessedUnder(p, Tail(vis))
    ELSE ProcessedUnder(p, Tail(vis))

\* every interpreted replication that was entered has run its body `times`
\* times, each time from the first descriptor to the last
BodiesRun ==
    \A i \in 1..Len(counts) :
        ~counts[i].compiled =>
            ProcessedUnder(counts[i].path, visited)
                = ExpandRepeat(counts[i].body, 1, counts[i].times, counts[i].path)

\* the loop pops the Repeat frame of a replication whose repetitions are done
RepeatDone ==
    /\ status = "running"
    /\ stack # <<>>
    /\ Top(stack).t = "Repeat"
    /\ Top(stack).current >= Top(stack).times

\* the frame now on top is the slice the replication at path p stands in, at
\* the descriptor right after the replication's body
AfterBody(p, frame, body) ==
    LET k == p[Len(p)] IN
    /\ frame.t = "Slice"
    /\ frame.base = SubSeq(p, 1, Len(p) - 1)
    /\ frame.descs[k + 1].f = 1
    /\ frame.descs[k + 1].x = Len(body)
    /\ frame.idx = k + (IF frame.descs[k + 1].y = 0 THEN 2 ELSE 1) + Len(body)
    /\ SubSeq(frame.descs, frame.idx - Len(body) + 1, frame.idx) = body

\* C24: a replication with repeat count n runs its body exactly n times, each
\* time from the body's first descriptor to its last, and then goes on with
\* the descriptor right after the body; with n = 0 the body is not run and
\* no bit is consumed. Also for replications in bodies and in sequences.
C24_ReplicationRunsBody ==
    [][/\ RepeatDone =>
            /\ Top(stack).current = Top(stack).times
            /\ data' = data
            /\ stack' # <<>>
            /\ AfterBody(Top(stack).base, Top(stack'), Top(stack).descs)
       /\ status' = "ok" => BodiesRun']_vars

\* a decode that ended after a replication in a sequence ran its body three
\* times, and one whose counter was 0
C24_Witness ==
    /\ status = "ok"
    /\ \E i \in 1..Len(counts) :
          /\ ~counts[i].compiled
          /\ counts[i].times = 3
          /\ Len(counts[i].path) = 2
          /\ Len(ProcessedUnder(counts[i].path, visited)) = 3

(***************************************************************************)
(* parser.rs: find_bufr_offsets over a reader that may return short reads  *)
(***************************************************************************)
MaxStream == 6

\* the bytes of the marker and one other byte
ScanBytes == {66, 85, 70, 82, 0}

ScanStreams == SeqsUpTo(ScanBytes, MaxStream)

\* the locals of find_bufr_offsets between two reads
Scanning(file_offset, overlap, found) ==
    [op |-> "scan", file_offset |-> file_offset, overlap |-> overlap,
     offsets |-> found]

\* find_bufr_offsets has sought to the start of the reader
InitScan ==
    /\ overflow_checks \in BOOLEAN
    /\ stream \in ScanStreams
    /\ offsets = None
    /\ file_block = <<>>
    /\ status = "running"
    /\ last = Scanning(0, <<>>, <<>>)
    /\ data = BitInput(<<>>)
    /\ IdleDecoder
    /\ fields = <<>>
    /\ nread = 0
    /\ decoded = <<>>
    /\ TABLES_BASE_PATH = None
    /\ env = <<>>
    /\ threads = <<>>
    /\ disk = {}

\* one iteration of the loop: reader.read answers bytes_read bytes, any number
\* from 1 to what is left of the stream
Read ==
    /\ status = "running"
    /\ \E bytes_read \in 1..(Len(stream) - last.file_offset) :
          LET buffer == SubSeq(stream, last.file_offset + 1,
                               last.file_offset + bytes_read)
          IN  last' = Scanning(last.file_offset + bytes_read, next_overlap(buffer),
                               last.offsets
                                 \o search(last.overlap \o buffer, 0,
                                           last.file_offset - Len(last.overlap)))
    /\ UNCHANGED <<stream, offsets, file_block, status>>
    /\ UNCHANGED NotParser

\* reader.read answers 0 at the end of the stream: break, Ok(offsets)
EndOfStream ==
    /\ status = "running"
    /\ last.file_offset = Len(stream)
    /\ offsets' = Some(last.offsets)
    /\ status' = "ok"
    /\ UNCHANGED <<stream, file_block, last>>
    /\ UNCHANGED NotParser

NextScan == Read \/ EndOfStream

SpecScan == InitScan /\ [][NextScan]_vars

\* the offsets at which the four bytes "BUFR" stand in the stream
Markers(bytes) ==
    {i \in 0..(Len(bytes) - Len(BUFR_PATTERN)) :
        SubSeq(bytes, i + 1, i + Len(BUFR_PATTERN)) = BUFR_PATTERN}

\* `found` holds exactly the offsets of `markers`, each once, ascending
ExactlyAscending(found, markers) ==
    /\ {found[i] : i \in 1..Len(found)} = markers
    /\ \A i \in 1..(Len(found) - 1) : found[i] < found[i + 1]

\* C25: for every byte stream and every split of it into non-empty reads, also
\* reads of 1 or 2 bytes, find_bufr_offsets returns exactly the offsets at
\* which "BUFR" stands in the stream, each once, in ascending order.
C25_OffsetsUnderAnySplit ==
    (status = "ok" /\ offsets # None) => ExactlyAscending(Unwrap(offsets), Markers(stream))

(***************************************************************************)
(* The operator state, step by step                                        *)
(***************************************************************************)
MaxOps == 3

\* every operator the decoder knows, one it does not (2-04), and one
\* descriptor of every other kind
OperatorAlphabet ==
    {FXY(2, 1, 129), FXY(2, 1, 0), FXY(2, 2, 129), FXY(2, 3, 2), FXY(2, 4, 1),
     FXY(2, 5, 1), FXY(2, 6, 4), FXY(2, 7, 1), FXY(2, 8, 2),
     FXY(0, 1, 1), FXY(1, 1, 2), FXY(1, 1, 16), FXY(1, 1, 0), FXY(3, 1, 1)}

OperatorPrograms == SeqsUpTo(OperatorAlphabet, MaxOps)

InitOperators ==
    /\ overflow_checks \in BOOLEAN
    /\ descriptors \in OperatorPrograms
    /\ data = BitInput(ArrayPayload)
    /\ state = State_new
    /\ stack = <<Slice(descriptors, 0, <<>>)>>
    /\ record = <<>>
    /\ status = "running"
    /\ visited = <<>>
    /\ counts = <<>>
    /\ compiled = None
    /\ steps = 0
    /\ last = LastStep("decode", -1, FALSE)
    /\ IdleHarness
    /\ IdleElsewhere

SpecOperators == InitOperators /\ [][Next]_vars

Slots == {"common_scale", "common_ref_value", "common_data_width", "common_str_width",
          "local_data_width", "temp_operator"}

\* the slot operator 2-X-Y is for; none for 2-05 and for unknown operators
OwnSlot(x) ==
    CASE x = 1 -> {"common_data_width"}
      [] x = 2 -> {"common_scale"}
      [] x = 3 -> {"common_ref_value"}
      [] x = 6 -> {"local_data_width"}
      [] x = 7 -> {"temp_operator"}
      [] x = 8 -> {"common_str_width"}
      [] OTHER -> {}

\* the slots a step on descriptor des may change
MayChange(des) ==
    CASE des.f = 0 -> {"local_data_width", "temp_operator"}
      [] des.f = 2 -> OwnSlot(des.x)
      [] OTHER -> {}

\* the loop is about to run parse_slice on a descriptor
AtDescriptor ==
    /\ status = "running"
    /\ stack # <<>>
    /\ Top(stack).t = "Slice"
    /\ Top(stack).idx < Len(Top(stack).descs)

NextDescriptor == Top(stack).descs[Top(stack).idx + 1]

\* C26: an F = 1 or F = 3 step leaves all six slots of the operator state
\* unchanged; an F = 0 step leaves the four common slots unchanged; an F = 2
\* step changes at most the slot of its operator, and 2-05 and unknown
\* operators change none. Steps on Repeat and CompiledArray frames and the
\* end of a slice change none either.
C26_OperatorStateEffect ==
    [][/\ AtDescriptor =>
            \A slot \in Slots \ MayChange(NextDescriptor) : state'[slot] = state[slot]
       /\ ~AtDescriptor => state' = state]_vars

\* an element was decoded while a common operator and a one-shot were set
C26_Witness ==
    /\ last.op = "parse_slice"
    /\ last.f = 0
    /\ status = "running"
    /\ state.common_scale # None
    /\ state.common_str_width # None
    /\ record # <<>>

(***************************************************************************)
(* What a CompiledArray frame adds to the output                           *)
(***************************************************************************)
\* the input `k` bits further on
SkipBits(inp, k) ==
    [bytes |-> DropBytes(inp.bytes, (inp.off + k) \div 8), off |-> (inp.off + k) % 8]

\* the bits of the fields before field i in one repetition
RECURSIVE WidthBefore(_, _)
WidthBefore(flds, i) ==
    IF i <= 1 THEN 0 ELSE WidthBefore(flds, i - 1) + flds[i - 1].width_bits

\* the elements of a body, in body order
ElementsOf(body) == SelectSeq(body, LAMBDA des : des.f = 0)

\* entry `entry` of the output is the array of field i of the layout, read
\* from the input `data0`: name and unit of the field's element, `times`
\* values, value j read from the field's bits in repetition j
IsArrayOf(entry, layout, i, times, data0, body) ==
    LET field_spec == layout.fields[i] IN
    /\ field_spec.fxy = ElementsOf(body)[i]
    /\ entry.name = Unwrap(get_b(field_spec.fxy)).element_name_en
    /\ entry.unit = Unwrap(get_b(field_spec.fxy)).bufr_unit
    /\ entry.values.t = "Array"
    /\ Len(entry.values.vs) = times
    /\ \A j \in 1..times :
          entry.values.vs[j]
            = field_value(field_spec,
                          get_arbitary_bits(
                              SkipBits(data0, (j - 1) * layout.bits_per_element
                                                + WidthBefore(layout.fields, i)),
                              field_spec.width_bits).value)

\* C27: decoding a CompiledArray frame whose layout has k fields with repeat
\* count n adds exactly k Array entries to the output, in body order and with
\* each field's name and unit, each of length n with the value at position j
\* decoded from repetition j, and consumes exactly n * bits_per_element bits.
C27_CompiledArrayOutput ==
    compiled # None =>
        LET c == Unwrap(compiled) IN
        /\ Len(record) = c.first - 1 + Len(c.layout.fields)
        /\ Len(c.layout.fields) = Len(ElementsOf(c.body))
        /\ \A i \in 1..Len(c.layout.fields) :
              IsArrayOf(record[c.first - 1 + i], c.layout, i, c.times, c.data0, c.body)
        /\ BitsLeft(c.data0) - BitsLeft(data) = c.times * c.layout.bits_per_element

\* a CompiledArray frame of a body of three descriptors with two fields was
\* decoded 16 times
C27_Witness ==
    /\ compiled # None
    /\ Len(Unwrap(compiled).layout.fields) = 2
    /\ Len(Unwrap(compiled).body) = 3
    /\ Unwrap(compiled).times = 16
    /\ Unwrap(compiled).layout.bits_per_element > 0

(***************************************************************************)
(* The depth of the stack                                                  *)
(***************************************************************************)
\* the sequences and replications a frame with base path `path` (relative to
\* `descs`, after `pre`) lies in: their paths and F
RECURSIVE Enclosing(_, _, _)
Enclosing(descs, path, pre) ==
    IF path = <<>> THEN {}
    ELSE LET q == pre \o <<path[1]>>
             des == descs[path[1] + 1]
             body_start == IF des.y = 0 THEN path[1] + 2 ELSE path[1] + 1
         IN  {[path |-> q, f |-> des.f, des |-> des]}
             \cup (IF des.f = 3
                   THEN Enclosing(Unwrap(get_d(des)).fxy_chain, Tail(path), q)
                   ELSE IF Len(path) >= 2
                   THEN Enclosing(SubSeq(descs, body_start + 1, body_start + des.x),
                                  Tail(Tail(path)), q \o <<path[2]>>)
                   ELSE {})

\* the expansions that have frames on the stack: the ones currently open
Open == UNION {Enclosing(descriptors, stack[i].base, <<>>) : i \in 1..Len(stack)}

OpenSequences == {o \in Open : o.f = 3}
OpenReplications == {o \in Open : o.f = 1}

\* C28: in every reachable state of a decode the stack holds at most
\* 1 + (F = 3 expansions open) + 2 * (replications open) frames, whatever the
\* repeat counts and the number of descriptors at a nesting level.
C28_StackDepthBound ==
    Len(stack) <= 1 + Cardinality(OpenSequences) + 2 * Cardinality(OpenReplications)

\* the third repetition of a replication inside a sequence is under way, with
\* the bound met
C28_Witness ==
    /\ status = "running"
    /\ Cardinality(OpenSequences) = 1
    /\ Cardinality(OpenReplications) = 1
    /\ Len(stack) = 4
    /\ \E i \in 1..Len(stack) : stack[i].t = "Repeat" /\ stack[i].current = 3

(***************************************************************************)
(* Decoder::from_message: the tables of a message                          *)
(***************************************************************************)
\* TableInfo of an edition 4 message: u8 versions, u16 centre and sub-centre
TableInfo(master_table_version, local_table_version, center_id, subcenter_id) ==
    [master_table_version |-> master_table_version,
     local_table_version |-> local_table_version,
     center_id |-> center_id, subcenter_id |-> subcenter_id]

LocalTable_new(sub_center, version) == [sub_center |-> sub_center, version |-> version]

\* local/BUFR_TableB_{sub_center}_{version}.bufrtbl, and TableD
local_file_path(table, table_type) ==
    <<"local", table_type,
      IF table.sub_center = None THEN 0 ELSE Unwrap(table.sub_center), table.version>>

\* TableLoader.load_table(LocalTable)
load_local_table(files, table_type, table) ==
    IF local_file_path(table, table_type) \in files
    THEN LoadOk([path |-> local_file_path(table, table_type)])
    ELSE LoadErr("Io")

\* table_info.subcenter_id * 256 + table_info.center_id, in u16
local_identity(checks, subcenter_id, center_id) ==
    IF subcenter_id * 256 >= Pow2(16)
    THEN IF checks THEN [status |-> "panic", why |-> "attempt to multiply with overflow",
                         value |-> 0]
         ELSE [status |-> "ok", why |-> "",
               value |-> (((subcenter_id * 256) % Pow2(16)) + center_id) % Pow2(16)]
    ELSE IF subcenter_id * 256 + center_id >= Pow2(16)
    THEN IF checks THEN [status |-> "panic", why |-> "attempt to add with overflow",
                         value |-> 0]
         ELSE [status |-> "ok", why |-> "",
               value |-> (subcenter_id * 256 + center_id) % Pow2(16)]
    ELSE [status |-> "ok", why |-> "", value |-> subcenter_id * 256 + center_id]

\* the end of Decoder::from_message; `asked` is a ghost: the local table the
\* loader was asked for
DecoderTables(st, master, asked, local) ==
    [status |-> st, master |-> master, asked |-> asked, local |-> local]

\* the local tables of from_message once the identity is computed
local_tables(files, master, version, id) ==
    IF id.status # "ok" THEN DecoderTables(id.status, master, None, None)
    ELSE LET table == LocalTable_new(Some(id.value), version)
             loaded_b == load_local_table(files, "B", table)
             loaded_d == load_local_table(files, "D", table)
         IN  IF loaded_b.status # "ok" \/ loaded_d.status # "ok"
             THEN DecoderTables("err", master, Some(table), None)
             ELSE DecoderTables("ok", master, Some(table),
                         Some(<<loaded_b.table, loaded_d.table>>))

\* Decoder::from_message, up to the tables it holds
from_message(checks, files, table_info) ==
    LET found_b == load_first_validable_table(files, "B", table_info.master_table_version)
        found_d == load_first_validable_table(files, "D", table_info.master_table_version)
    IN  IF found_b.status # "ok" \/ found_d.status # "ok"
        THEN DecoderTables("err", None, None, None)
        ELSE IF table_info.local_table_version > 0
        THEN local_tables(files, Some(<<found_b.table, found_d.table>>),
                          table_info.local_table_version,
                          local_identity(checks, table_info.subcenter_id,
                                         table_info.center_id))
        ELSE DecoderTables("ok", Some(<<found_b.table, found_d.table>>), None, None)

\* centre and sub-centre values: the ends of the 16-bit range and the values
\* around one octet
Centres == {0, 1, 255, 256, 65535}

LocalVersions == {0, 1, 255}

MessageTableInfos ==
    {TableInfo(mv, lv, c, s) :
        mv \in {0, 1}, lv \in LocalVersions, c \in Centres, s \in Centres}


\* the identities a 16-bit centre and sub-centre give, as integers
Identities == {s * 256 + c : s \in Centres, c \in Centres}

LocalFiles ==
    {local_file_path(LocalTable_new(Some(id), lv), t) :
        id \in Identities \cup {0, 255, 511}, lv \in LocalVersions, t \in TableTypes}

\* the table files on disk: all of them; the master tables only; the master
\* tables but Table D of version 1; none
TableDisks ==
    {MasterFiles \cup LocalFiles, MasterFiles,
     (MasterFiles \cup LocalFiles) \ {file_path(MasterTable_new(1), "D")}, {}}

\* a message of edition 4 has been parsed
InitIdentity ==
    /\ overflow_checks \in BOOLEAN
    /\ disk \in TableDisks
    /\ \E table_info \in MessageTableInfos :
          last = [op |-> "message", table_info |-> table_info,
                  res |-> DecoderTables("", None, None, None)]
    /\ status = "running"
    /\ data = BitInput(<<>>)
    /\ fields = <<>>
    /\ nread = 0
    /\ IdleDecoder
    /\ stream = <<>>
    /\ offsets = <<>>
    /\ file_block = <<>>
    /\ decoded = <<>>
    /\ TABLES_BASE_PATH = None
    /\ env = <<>>
    /\ threads = <<>>

\* Decoder::from_message(message)
FromMessage ==
    /\ last.op = "message"
    /\ last' = [last EXCEPT !.op = "from_message",
                            !.res = from_message(overflow_checks, disk, last.table_info)]
    /\ status' = IF last'.res.status = "panic" THEN "panic" ELSE "running"
    /\ UNCHANGED <<overflow_checks, descriptors, data, state, stack, record,
                   visited, counts, compiled, steps, fields, nread, catalog>>
    /\ UNCHANGED <<stream, offsets, file_block, decoded, TABLES_BASE_PATH, env, threads,
                   disk>>

NextIdentity == FromMessage

SpecIdentity == InitIdentity /\ [][NextIdentity]_vars

\* C29: from_message loads local tables exactly when local_table_version > 0,
\* and it asks for them under the identity subcenter * 256 + center, the
\* integer, for every 16-bit centre and sub-centre: no wrap-around, no
\* truncation, no failure of the arithmetic.
C29_LocalIdentity ==
    (last.op = "from_message" /\ last.res.master # None) =>
        /\ last.res.status # "panic"
        /\ (last.res.asked # None) <=> (last.table_info.local_table_version > 0)
        /\ last.res.asked # None =>
              /\ Unwrap(last.res.asked).sub_center
                   = Some(last.table_info.subcenter_id * 256 + last.table_info.center_id)
              /\ Unwrap(last.res.asked).version = last.table_info.local_table_version
        /\ (last.res.local # None) <=> (last.res.asked # None /\ last.res.status = "ok")

(***************************************************************************)
(* Sequences that hold themselves                                          *)
(***************************************************************************)
\* the frames the model lets the stack grow to
MaxStack == 8

CycleAlphabet ==
    {FXY(0, 1, 1), FXY(1, 1, 2), FXY(1, 1, 16), FXY(3, 1, 1), FXY(3, 1, 4), FXY(3, 1, 15)}

CyclePrograms == SeqsUpTo(CycleAlphabet, 2) \ {<<>>}

\* a data section of two octets, and a long one
CyclePayloads == {<<255, 129>>, ArrayPayload}

InitCycle ==
    /\ overflow_checks \in BOOLEAN
    /\ descriptors \in CyclePrograms
    /\ \E payload \in CyclePayloads : data = BitInput(payload)
    /\ state = State_new
    /\ stack = <<Slice(descriptors, 0, <<>>)>>
    /\ record = <<>>
    /\ status = "running"
    /\ visited = <<>>
    /\ counts = <<>>
    /\ compiled = None
    /\ steps = 0
    /\ last = LastStep("decode", -1, FALSE)
    /\ IdleHarness
    /\ IdleElsewhere

\* one iteration of the loop of decode while the stack is within MaxStack
\* frames
CycleSlice == Len(stack) < MaxStack /\ StepSlice
CycleRepeat == Len(stack) < MaxStack /\ StepRepeat
CycleCompiledArray == Len(stack) < MaxStack /\ StepCompiledArray

NextCycle == CycleSlice \/ CycleRepeat \/ CycleCompiledArray \/ Finish

SpecCycle == InitCycle /\ [][NextCycle]_vars

\* the sequences frame `frame` lies in
Lineage(frame) == {o \in Enclosing(descriptors, frame.base, <<>>) : o.f = 3}

\* C30: with a cycle in Table D the decode stops with an error rather than
\* expanding without end: no sequence is ever expanded inside its own
\* expansion, so the steps and the stack are bounded by the catalog.
C30_CycleStopsDecode ==
    \A i \in 1..Len(stack) :
        \A a, b \in Lineage(stack[i]) : a.des = b.des => a.path = b.path

(***************************************************************************)
(* BitInput: reads that fail, wide reads and batch reads                   *)
(***************************************************************************)
BatchOk(vs, inp) == [status |-> "ok", values |-> vs, input |-> inp, why |-> ""]
BatchFail(st, inp, why) == [status |-> st, values |-> <<>>, input |-> inp, why |-> why]

\* a batch read that takes the fast path at any bit offset
batch_ignoring_offset(inp, nbits, count) ==
    LET bytes_per_item == nbits \div 8
        total_bytes == bytes_per_item * count
    IN  IF count = 0 THEN BatchOk(<<>>, inp)
        ELSE IF Len(inp.bytes) < total_bytes
        THEN BatchFail("err", inp, "Not enough data for batch read")
        ELSE BatchOk([i \in 1..count |->
                         FoldBytes(inp.bytes, (i - 1) * bytes_per_item + 1,
                                   bytes_per_item, Zero64)],
                     [bytes |-> DropBytes(inp.bytes, total_bytes), off |-> inp.off])

\* the fast path of get_batch_same_width: byte-aligned cursor, whole bytes
batch_fast(inp, nbits, count) ==
    LET bytes_per_item == nbits \div 8
        total_bytes == bytes_per_item * count
    IN  IF Len(inp.bytes) < total_bytes
        THEN BatchFail("err", inp, "Not enough data for batch read")
        ELSE BatchOk([i \in 1..count |->
                         FoldBytes(inp.bytes, (i - 1) * bytes_per_item + 1,
                                   bytes_per_item, Zero64)],
                     [bytes |-> DropBytes(inp.bytes, total_bytes), off |-> inp.off])

\* the fallback of get_batch_same_width: `count` more reads of get_arbitary_bits,
\* each moving the cursor; the first that fails ends the batch
RECURSIVE batch_scalar(_, _, _, _)
batch_scalar(inp, nbits, count, result) ==
    IF count = 0 THEN BatchOk(result, inp)
    ELSE LET r == get_arbitary_bits(inp, nbits) IN
         IF r.status # "ok" THEN BatchFail(r.status, r.input, r.why)
         ELSE batch_scalar(r.input, nbits, count - 1, Append(result, r.value))

\* BitInput::get_batch_same_width
get_batch_same_width(inp, nbits, count) ==
    IF count = 0 THEN BatchOk(<<>>, inp)
    ELSE IF inp.off = 0 /\ nbits % 8 = 0 THEN batch_fast(inp, nbits, count)
    ELSE batch_scalar(inp, nbits, count, <<>>)

MaxCount == 3

\* the widths read: none, parts of a byte, whole bytes with and without a
\* fast path, 64 bits and more
ReadWidths == {0, 1, 7, 8, 12, 16, 24, 32, 40, 64, 65, 72}

\* the bit offsets the cursor is brought to before the call
Offsets == {0, 1, 4, 7}

\* data sections: short ones, with bytes that are not UTF-8, and long ones
ReadPayloads ==
    (SeqsUpTo({65, 200}, 3) \ {<<>>})
    \cup {[i \in 1..10 |-> 65], [i \in 1..10 |-> (i * 37) % 256],
          [i \in 1..19 |-> (i * 53) % 256]}

InitReads ==
    /\ overflow_checks \in BOOLEAN
    /\ \E payload \in ReadPayloads : data = BitInput(payload)
    /\ fields = <<>>
    /\ nread = 0
    /\ status = "running"
    /\ last = NoCall(data)
    /\ IdleDecoder
    /\ IdleElsewhere

NotReads == <<overflow_checks, descriptors, state, stack, record, visited,
              counts, compiled, steps, fields, catalog>>

\* the call under test has answered `res`
Called(op, n, count, res) ==
    /\ last' = [op |-> op, n |-> n, count |-> count, before |-> data, res |-> res]
    /\ data' = res.input
    /\ status' = IF res.status = "panic" THEN "panic" ELSE "called"
    /\ nread' = nread + 1
    /\ UNCHANGED NotReads
    /\ UNCHANGED Elsewhere

\* earlier reads have left the cursor at a bit offset
Advance ==
    /\ status = "running"
    /\ nread = 0
    /\ \E k \in Offsets \ {0} :
          /\ get_arbitary_bits(data, k).status = "ok"
          /\ data' = get_arbitary_bits(data, k).input
          /\ last' = NoCall(data')
    /\ nread' = 1
    /\ UNCHANGED status
    /\ UNCHANGED NotReads
    /\ UNCHANGED Elsewhere

\* data.get_arbitary_bits(n)
CallBits ==
    /\ status = "running"
    /\ \E n \in ReadWidths : Called("get_arbitary_bits", n, 1, get_arbitary_bits(data, n))

\* data.take_string(nbytes)
CallString ==
    /\ status = "running"
    /\ \E nbytes \in 0..MaxCount : Called("take_string", nbytes, 1, take_string(data, nbytes))

\* data.get_batch_same_width(n, count)
CallBatch ==
    /\ status = "running"
    /\ \E n \in ReadWidths, count \in 0..MaxCount :
          Called("get_batch_same_width", n, count, get_batch_same_width(data, n, count))

NextReads == Advance \/ CallBits \/ CallString \/ CallBatch

SpecReads == InitReads /\ [][NextReads]_vars

\* C31: a read of the bit stream that fails leaves the cursor, remaining
\* bytes and bit offset, as it was before the call: get_arbitary_bits,
\* take_string on aligned and unaligned cursors, get_batch_same_width on its
\* fast path and on its fallback.
C31_FailedReadKeepsCursor ==
    (last.op \in {"get_arbitary_bits", "take_string", "get_batch_same_width"}
     /\ last.res.status = "err") => last.res.input = last.before

\* C32: get_arbitary_bits(n) with n > 64 returns an error and consumes no
\* bits, whether the cursor is byte-aligned or not, so that an element wider
\* than 64 bits never yields a value.
C32_WideReadFails ==
    (last.op = "get_arbitary_bits" /\ last.n > 64) =>
        /\ last.res.status = "err"
        /\ last.res.input = last.before

\* the successive reads C36 compares a batch with: `count` calls of
\* get_arbitary_bits(n), all of which succeed, or the first failure
RECURSIVE Successive(_, _, _)
Successive(inp, n, count) ==
    IF count = 0 THEN [status |-> "ok", values |-> <<>>, input |-> inp]
    ELSE LET r == get_arbitary_bits(inp, n)
         IN  IF r.status # "ok"
             THEN [status |-> r.status, values |-> <<>>, input |-> r.input]
             ELSE LET rest == Successive(r.input, n, count - 1)
                  IN  [rest EXCEPT !.values = IF rest.status = "ok"
                                              THEN <<r.value>> \o @ ELSE <<>>]

\* C36: for every width n in 0..64, every count and every cursor position,
\* get_batch_same_width(n, count) succeeds exactly when count successive
\* calls of get_arbitary_bits(n) all succeed, and then returns their values
\* in their order and leaves the cursor where they leave it.
C36_BatchEqualsScalar ==
    (last.op = "get_batch_same_width" /\ last.n \in 0..64) =>
        /\ (last.res.status = "ok")
              <=> (Successive(last.before, last.n, last.count).status = "ok")
        /\ last.res.status = "ok" =>
              /\ last.res.values = Successive(last.before, last.n, last.count).values
              /\ last.res.input = Successive(last.before, last.n, last.count).input

\* three 16-bit values were read by the fast path, with bytes left over
C36_Witness ==
    /\ last.op = "get_batch_same_width"
    /\ last.res.status = "ok"
    /\ last.n = 16
    /\ last.count = 3
    /\ last.before.off = 0
    /\ last.res.input.bytes # <<>>

(***************************************************************************)
(* Sections shorter than their header                                      *)
(***************************************************************************)
\* the declared length of the section that starts after `at` bytes of the
\* message, -1 when its three length octets are not all there
DeclaredLength(input, at) ==
    IF Len(input) < at + 3 THEN -1 ELSE BeValue(SubSeq(input, at + 1, at + 3))

\* the section that starts after `at` bytes is all there and at least
\* `header` bytes long
WholeSection(input, at, header) ==
    /\ DeclaredLength(input, at) >= header
    /\ Len(input) >= at + DeclaredLength(input, at)

\* the section after `at` bytes declares a length below its header of
\* `header` bytes, the header being there
ShortSection(input, at, header) ==
    /\ Len(input) >= at + header
    /\ DeclaredLength(input, at) < header

\* sections 3 and 4 from `at` on: one of them declares a length below its
\* fixed header
ShortFrom3(input, at) ==
    \/ ShortSection(input, at, 7)
    \/ /\ WholeSection(input, at, 7)
       /\ ShortSection(input, at + DeclaredLength(input, at), 4)

\* a message of edition 2 or 4 whose sections 0 and 1 are well formed and
\* whose section 2, 3 or 4 declares a length below its fixed header
HasShortSection(input) ==
    /\ Len(input) >= 8
    /\ SubSeq(input, 1, 4) = BUFR_PATTERN
    /\ input[8] \in {2, 4}
    /\ WholeSection(input, 8, FIXED_LEN(input[8]))
    /\ IF input[8 + FlagOctet(input[8])] >= 128
       THEN \/ ShortSection(input, 8 + DeclaredLength(input, 8), 4)
            \/ /\ WholeSection(input, 8 + DeclaredLength(input, 8), 4)
               /\ ShortFrom3(input, 8 + DeclaredLength(input, 8)
                                      + DeclaredLength(input, 8 + DeclaredLength(input, 8)))
       ELSE ShortFrom3(input, 8 + DeclaredLength(input, 8))

\* C33: a section whose declared length is below its own fixed header
\* (section 2 or 4 below 4, section 3 below 7) makes the parse of the message
\* return an error; the subtraction of the header length does not underflow
\* into a crash or a wrong number of bytes taken.
C33_ShortSectionIsError ==
    (last.op = "message" /\ last.read = "ok" /\ HasShortSection(last.input)) =>
        last.result.status = "err"

\* C34: the master Table B and the master Table D of a Decoder built by
\* from_message have the same version, also when the version asked for is
\* absent and a fallback version is used.
C34_MasterTablesSameVersion ==
    (last.op = "from_message" /\ last.res.master # None) =>
        Unwrap(last.res.master)[1].path[3] = Unwrap(last.res.master)[2].path[3]

(***************************************************************************)
(* The Meteo-France Table D loader (fr/dtable.rs, fr/mod.rs)               *)
(***************************************************************************)
MaxLines == 4

\* the lines of a table file: a header line names a sequence and its first
\* child, a continuation line a further child; a blank line
HeaderLine(fxy, fxy1) == [kind |-> "header", fxy |-> fxy, fxy1 |-> fxy1]
ContinuationLine(fxy1) == [kind |-> "continuation", fxy |-> None, fxy1 |-> fxy1]
BlankLine == [kind |-> "blank", fxy |-> None, fxy1 |-> None]

SequenceKeys == {FXY(3, 1, 1), FXY(3, 1, 2)}
Children == {FXY(0, 1, 1), FXY(0, 1, 2)}

Lines ==
    {HeaderLine(k, c) : k \in SequenceKeys, c \in Children}
        \cup {ContinuationLine(c) : c \in Children} \cup {BlankLine}

TableFiles == SeqsUpTo(Lines, MaxLines)

\* FRDTableLoader and what process_entry returns: Ok(Some(entry)), Ok(None)
\* or Err
Loader(current_chain, seen_keys) ==
    [current_chain |-> current_chain, seen_keys |-> seen_keys]
Processed(st, loader, finished) ==
    [status |-> st, loader |-> loader, finished |-> finished]

\* FRDTableLoader::process_entry
process_entry(loader, raw) ==
    IF raw.kind = "blank" THEN Processed("ok", loader, None)
    ELSE IF raw.kind = "header"
    THEN IF raw.fxy \in loader.seen_keys
         THEN Processed("ok", loader, None)
         ELSE Processed("ok",
                        Loader(Some(DTableEntry(raw.fxy, <<raw.fxy1>>)),
                               loader.seen_keys \cup {raw.fxy}),
                        loader.current_chain)
    ELSE IF loader.current_chain = None
    THEN Processed("err", loader, None)
    ELSE Processed("ok",
                   Loader(Some(DTableEntry(Unwrap(loader.current_chain).fxy,
                                           Append(Unwrap(loader.current_chain).fxy_chain,
                                                  raw.fxy1))),
                          loader.seen_keys),
                   None)

\* FRDTableLoader::finish
finish(loader) == Processed("ok", Loader(None, loader.seen_keys), loader.current_chain)

\* load_table has opened the file with a default loader
InitFR ==
    /\ stream \in TableFiles
    /\ nread = 0
    /\ last = [op |-> "open", loader |-> Loader(None, {})]
    /\ decoded = <<>>
    /\ status = "running"
    /\ overflow_checks = FALSE
    /\ data = BitInput(<<>>)
    /\ fields = <<>>
    /\ IdleDecoder
    /\ offsets = <<>>
    /\ file_block = <<>>
    /\ TABLES_BASE_PATH = None
    /\ env = <<>>
    /\ threads = <<>>
    /\ disk = {}

NotFR == <<overflow_checks, descriptors, data, state, stack, record, visited, counts,
           compiled, steps, fields, catalog, offsets, file_block, TABLES_BASE_PATH, env,
           threads, disk>>

\* the loop of load_table once the loader has answered `r`: an entry handed
\* back is pushed; an error is printed and the line skipped
Collect(op, r) ==
    /\ last' = [op |-> op, loader |-> r.loader]
    /\ decoded' = IF r.status = "ok" /\ r.finished # None
                  THEN Append(decoded, Unwrap(r.finished)) ELSE decoded

\* load_table: one record of the file
ProcessEntry ==
    /\ status = "running"
    /\ nread < Len(stream)
    /\ Collect("process_entry", process_entry(last.loader, stream[nread + 1]))
    /\ nread' = nread + 1
    /\ UNCHANGED <<stream, status>>
    /\ UNCHANGED NotFR

\* load_table: the file is read, loader.finish(), Ok(entries)
FinishTable ==
    /\ status = "running"
    /\ nread = Len(stream)
    /\ Collect("finish", finish(last.loader))
    /\ status' = "ok"
    /\ UNCHANGED <<stream, nread>>
    /\ UNCHANGED NotFR

NextFR == ProcessEntry \/ FinishTable

SpecFR == InitFR /\ [][NextFR]_vars

\* the entries of a file when a header line with a key already seen is
\* ignored together with its continuation lines; `entries` are the entries
\* so far, the last one open unless `skipping`
RECURSIVE Sequences(_, _, _, _)
Sequences(lines, seen, skipping, entries) ==
    IF lines = <<>> THEN entries
    ELSE LET raw == Head(lines) IN
         IF raw.kind = "blank" THEN Sequences(Tail(lines), seen, skipping, entries)
         ELSE IF raw.kind = "header"
         THEN IF raw.fxy \in seen THEN Sequences(Tail(lines), seen, TRUE, entries)
              ELSE Sequences(Tail(lines), seen \cup {raw.fxy}, FALSE,
                             Append(entries, DTableEntry(raw.fxy, <<raw.fxy1>>)))
         ELSE IF skipping \/ entries = <<>>
         THEN Sequences(Tail(lines), seen, skipping, entries)
         ELSE Sequences(Tail(lines), seen, skipping,
                        [entries EXCEPT ![Len(entries)].fxy_chain = Append(@, raw.fxy1)])

\* C35: a header line whose sequence key was already seen is ignored with all
\* of its continuation lines: none of their descriptors is in the chain of an
\* emitted entry, and every other sequence is emitted exactly once with its
\* children in file order.
C35_DuplicateSequenceIgnored ==
    status = "ok" => decoded = Sequences(stream, {}, FALSE, <<>>)

====
